---- MODULE Spec2Model ----
(***************************************************************************)
(* A model of the CVRP solver of the route-optimization backend            *)
(* (controllers/optimization.js, kept here as src/unnamed/part_000).       *)
(*                                                                         *)
(* Two state machines share this module:                                   *)
(*   SpecDriver  - the request handler createOptimization: validation,     *)
(*                 the compare loop over the algorithm registry, the       *)
(*                 winner selection and the save;                          *)
(*   Spec        - the routing algorithms run on one problem instance.     *)
(***************************************************************************)
EXTENDS Integers, Sequences, FiniteSets, TLC

VARIABLES
    \* ---- driver (createOptimization) ----
    req,               \* the request body and what the database returns for it
    dpc,               \* position inside createOptimization
    httpStatus,        \* 0 while running, else the status of the response
    invoked,           \* algorithm keys whose function has been called, in order
    threw,             \* algorithm keys whose function threw
    algorithmResults,  \* the list the handler builds
    selectedAlgorithm, \* "" until chosen
    persisted,         \* an Optimization document was saved
    \* ---- one algorithm run on one instance ----
    inst,              \* the problem instance: demands, positions, vehicles
    alg,               \* the algorithm that runs ("" before the call)
    pc,                \* position inside the algorithm
    routes,            \* the routes array of the algorithm (its return value at the end)
    aux                \* the other locals of the running algorithm

drvVars == <<req, dpc, httpStatus, invoked, threw, algorithmResults,
             selectedAlgorithm, persisted>>

algVars == <<inst, alg, pc, routes, aux>>

vars == <<drvVars, algVars>>

(***************************************************************************)
(* Bounds of the model.                                                    *)
(***************************************************************************)
MaxDistance == 1     \* total distances of an algorithm result range over 0..MaxDistance

(***************************************************************************)
(* Program constants.                                                      *)
(***************************************************************************)
MaxLocations == 100
MaxVehicles == 20

(***************************************************************************)
(* Generic helpers.                                                        *)
(***************************************************************************)
Range(s) == {s[i] : i \in DOMAIN s}

Min2(a, b) == IF a < b THEN a ELSE b

Max2(a, b) == IF a > b THEN a ELSE b

(***************************************************************************)
(*                      THE DRIVER: createOptimization                     *)
(***************************************************************************)

\* algorithmMap: Object.entries iterates string keys in insertion order.
algorithmMap ==
    <<"clarke-wright", "nearest-neighbor", "enhanced-clarke-wright", "genetic",
      "tabu-search", "simulated-annealing", "ant-colony", "or-tools">>

\* The requests the model draws from.  vehicleIds / locationIds are given by
\* their lengths; "found" says whether the database returns the documents for
\* this user; hasDepot whether some returned location has isDepot; nonFinite
\* whether some returned location has a latitude or longitude that is not a
\* finite number.
Requests ==
    [ nameOk        : BOOLEAN,
      nVehicleIds   : {0, 1, MaxVehicles + 1},
      nLocationIds  : {0, 2, MaxLocations + 1},
      found         : BOOLEAN,
      hasDepot      : BOOLEAN,
      nonFinite     : BOOLEAN,
      runComparison : BOOLEAN,
      algorithm     : {"nearest-neighbor", "unknown"} ]

\* Lines 53-107: the first failing check decides; "ok" when all pass.
ValidateNoSizeLimit(r) ==
    IF ~r.nameOk THEN "name"
    ELSE IF r.nVehicleIds = 0 THEN "noVehicleIds"
    ELSE IF r.nLocationIds = 0 THEN "noLocationIds"
    ELSE IF ~r.found THEN "notFound"
    ELSE IF ~r.hasDepot THEN "noDepot"
    ELSE "ok"

Validate(r) ==
    IF ~r.nameOk THEN "name"
    ELSE IF r.nVehicleIds = 0 THEN "noVehicleIds"
    ELSE IF r.nLocationIds = 0 THEN "noLocationIds"
    ELSE IF r.nLocationIds > MaxLocations THEN "tooManyLocations"
    ELSE IF r.nVehicleIds > MaxVehicles THEN "tooManyVehicles"
    ELSE IF ~r.found THEN "notFound"
    ELSE IF ~r.hasDepot THEN "noDepot"
    ELSE "ok"

\* locations.filter(l => !l.isDepot).length, with one depot among the locations
TotalLocations(r) == r.nLocationIds - 1

\* What one call of an algorithm function can end in: an exception, or routes
\* serving `served` distinct non-depot locations with summed distance `dist`
\* (routes that serve nothing have distance 0).
Outcomes(r) ==
    {[throws |-> TRUE, served |-> 0, dist |-> 0]}
    \cup {[throws |-> FALSE, served |-> 0, dist |-> 0]}
    \cup [throws : {FALSE}, served : 1..TotalLocations(r), dist : 0..MaxDistance]

\* Lines 160-184: the entry pushed for a call that returned.
ResultEntry(key, r, o) ==
    [ algorithmKey         |-> key,
      error                |-> "",
      totalDistance        |-> o.dist,
      totalLocationsServed |-> o.served,
      coveragePercentage   |-> IF TotalLocations(r) > 0
                               THEN (o.served * 100) \div TotalLocations(r) ELSE 0,
      routesCount          |-> IF o.served > 0 THEN 1 ELSE 0 ]

\* Lines 196-218: the entry pushed by the catch block.
ErrorEntry(key) ==
    [ algorithmKey         |-> key,
      error                |-> "algoErr.message",
      totalDistance        |-> 0,
      totalLocationsServed |-> 0,
      coveragePercentage   |-> 0,
      routesCount          |-> 0 ]

HasError(e) == e.error # ""

\* Line 222: algorithmResults.filter(r => !r.error)
ValidResultsUnfiltered(results) == results

ValidResults(results) == SelectSeq(results, LAMBDA e : ~HasError(e))

\* Line 227: Math.max(...validResults.map(r => r.coveragePercentage || 0))
MaxCoverage(valid) ==
    CHOOSE c \in {valid[i].coveragePercentage : i \in DOMAIN valid} :
        \A i \in DOMAIN valid : valid[i].coveragePercentage <= c

\* Line 238: (current.totalDistance || Infinity) < (best.totalDistance || Infinity);
\* a totalDistance of 0 is falsy and is replaced by Infinity.
CloserOrEqual(current, best) ==
    \/ (current # 0 /\ (best = 0 \/ current <= best))
    \/ (current = 0 /\ best = 0)

Closer(current, best) == current # 0 /\ (best = 0 \/ current < best)

\* Lines 237-239: Array.prototype.reduce without an initial value.
RECURSIVE ReduceBest(_, _, _)
ReduceBest(list, k, best) ==
    IF k > Len(list) THEN best
    ELSE ReduceBest(list, k + 1,
                    IF Closer(list[k].totalDistance, best.totalDistance)
                    THEN list[k] ELSE best)

\* Lines 221-264: the best result of a compare run.
BestResult(results) ==
    LET valid == ValidResults(results) IN
    IF Len(valid) > 0
    THEN LET maxCoverage == MaxCoverage(valid)
             maxCoverageResults ==
                 SelectSeq(valid, LAMBDA e : e.coveragePercentage = maxCoverage)
         IN IF Len(maxCoverageResults) = 1
            THEN maxCoverageResults[1]
            ELSE ReduceBest(maxCoverageResults, 2, maxCoverageResults[1])
    ELSE results[1]

DriverInit ==
    /\ req \in Requests
    /\ (req.runComparison => req.algorithm = "unknown")  \* unused in compare mode
    \* validation is the same code for both modes and reads no coordinate: the
    \* non-finite case is followed through single mode only
    /\ (req.runComparison => ~req.nonFinite)
    /\ dpc = "validate"
    /\ httpStatus = 0
    /\ invoked = <<>>
    /\ threw = {}
    /\ algorithmResults = <<>>
    /\ selectedAlgorithm = ""
    /\ persisted = FALSE
    /\ inst = <<>> /\ alg = "" /\ pc = "" /\ routes = <<>> /\ aux = <<>>

\* Lines 53-107: a failed check answers 400 and returns.
RejectRequest ==
    /\ dpc = "validate"
    /\ Validate(req) # "ok"
    /\ dpc' = "done"
    /\ httpStatus' = 400
    /\ UNCHANGED <<req, invoked, threw, algorithmResults, selectedAlgorithm, persisted>>
    /\ UNCHANGED algVars

\* Lines 109-126 / 295-297: a request that passed enters one of the two modes.
AcceptRequest ==
    /\ dpc = "validate"
    /\ Validate(req) = "ok"
    /\ dpc' = IF req.runComparison THEN "compare" ELSE "single"
    /\ UNCHANGED <<req, httpStatus, invoked, threw, algorithmResults,
                   selectedAlgorithm, persisted>>
    /\ UNCHANGED algVars

\* Lines 130-219: one iteration of the compare loop.
CompareStep ==
    /\ dpc = "compare"
    /\ Len(algorithmResults) < Len(algorithmMap)
    /\ LET key == algorithmMap[Len(algorithmResults) + 1] IN
       \E o \in Outcomes(req) :
          /\ invoked' = Append(invoked, key)
          /\ threw' = IF o.throws THEN threw \cup {key} ELSE threw
          /\ algorithmResults' =
                 Append(algorithmResults,
                        IF o.throws THEN ErrorEntry(key) ELSE ResultEntry(key, req, o))
    /\ UNCHANGED <<req, dpc, httpStatus, selectedAlgorithm, persisted>>
    /\ UNCHANGED algVars

\* Lines 221-293: after the loop, select the winner, save and answer.
CompareFinish ==
    /\ dpc = "compare"
    /\ Len(algorithmResults) = Len(algorithmMap)
    /\ selectedAlgorithm' = BestResult(algorithmResults).algorithmKey
    /\ persisted' = TRUE
    /\ httpStatus' = 200
    /\ dpc' = "done"
    /\ UNCHANGED <<req, invoked, threw, algorithmResults>>
    /\ UNCHANGED algVars

\* Line 297: algorithmMap[algorithm] || algorithmMap['clarke-wright']
SelectedAlgo(r) ==
    IF r.algorithm \in Range(algorithmMap) THEN r.algorithm ELSE "clarke-wright"

\* Lines 296-391: single mode; an exception answers 500 and nothing is saved.
SingleRun ==
    /\ dpc = "single"
    /\ \E o \in Outcomes(req) :
          /\ invoked' = Append(invoked, SelectedAlgo(req))
          /\ IF o.throws
             THEN /\ threw' = threw \cup {SelectedAlgo(req)}
                  /\ httpStatus' = 500
                  /\ UNCHANGED <<algorithmResults, selectedAlgorithm, persisted>>
             ELSE /\ algorithmResults' = <<ResultEntry(req.algorithm, req, o)>>
                  /\ selectedAlgorithm' = req.algorithm
                  /\ persisted' = TRUE
                  /\ httpStatus' = 200
                  /\ UNCHANGED threw
    /\ dpc' = "done"
    /\ UNCHANGED req
    /\ UNCHANGED algVars

DriverNext ==
    \/ RejectRequest
    \/ AcceptRequest
    \/ CompareStep
    \/ CompareFinish
    \/ SingleRun

SpecDriver == DriverInit /\ [][DriverNext]_vars

(***************************************************************************)
(*                    Claims about the driver (SpecDriver)                 *)
(***************************************************************************)
CompareDone == dpc = "done" /\ req.runComparison /\ httpStatus = 200

\* the entry of algorithmResults the compare run selected
Winner == CHOOSE e \in Range(algorithmResults) : e.algorithmKey = selectedAlgorithm

IndexOfKey(key) == CHOOSE i \in DOMAIN algorithmMap : algorithmMap[i] = key

\* C6 (as claimed): among the results without error the winner of a compare run
\* has the maximum coverage and, among those of maximum coverage, the minimum
\* totalDistance - a totalDistance of 0 included.
C6_WinnerMaxCoverageMinDistance ==
    (CompareDone /\ Len(ValidResults(algorithmResults)) > 0) =>
        /\ ~HasError(Winner)
        /\ \A e \in Range(ValidResults(algorithmResults)) :
              /\ e.coveragePercentage <= Winner.coveragePercentage
              /\ (e.coveragePercentage = Winner.coveragePercentage
                    => Winner.totalDistance <= e.totalDistance)

C8_FailuresAreIsolated ==
    /\ (dpc = "compare" => httpStatus = 0 /\ ~persisted)
    /\ (dpc = "compare" =>
          /\ Len(algorithmResults) = Len(invoked)
          /\ \A i \in DOMAIN invoked : invoked[i] = algorithmMap[i])
    /\ ((dpc = "done" /\ req.runComparison /\ Validate(req) = "ok") =>
          /\ httpStatus = 200
          /\ persisted
          /\ invoked = algorithmMap
          /\ Len(algorithmResults) = Len(algorithmMap)
          /\ \A i \in DOMAIN algorithmResults :
                LET e == algorithmResults[i] IN
                /\ e.algorithmKey = algorithmMap[i]
                /\ (HasError(e) <=> algorithmMap[i] \in threw)
                /\ (HasError(e) =>
                      /\ e.totalDistance = 0
                      /\ e.totalLocationsServed = 0
                      /\ e.coveragePercentage = 0
                      /\ e.routesCount = 0)
          /\ (threw # Range(algorithmMap) => ~HasError(Winner)))

\* C8 witness: the first algorithm and the Genetic Algorithm threw, no valid
\* result served anything, and a later algorithm was selected.
C8_Witness ==
    /\ CompareDone
    /\ threw = {"clarke-wright", "genetic"}
    /\ \A e \in Range(algorithmResults) : e.coveragePercentage = 0
    /\ selectedAlgorithm = "nearest-neighbor"

\* exactly the conditions of C9
C9_BadInput(r) ==
    \/ r.nVehicleIds = 0
    \/ r.nLocationIds = 0
    \/ r.nLocationIds > MaxLocations
    \/ r.nVehicleIds > MaxVehicles
    \/ ~r.hasDepot

C10_NonFiniteRejected ==
    req.nonFinite =>
        /\ invoked = <<>>
        /\ (dpc = "done" => httpStatus = 400)

(***************************************************************************)
(*                 THE ALGORITHMS: one run on one instance                 *)
(*                                                                         *)
(* Locations are 0..NumCustomers in the order of the caller's list; 0 is   *)
(* the depot.  All locations lie on one meridian; inst.pos[l] is the       *)
(* offset of l along it in km, so the great-circle distance of two         *)
(* locations is the absolute difference of their offsets.  A vehicle is a  *)
(* type [capacity, count], named by its index in inst.vehicles.            *)
(***************************************************************************)
Depot == 0

\* The non-depot locations of the instances, as offsets in km north of the
\* depot along its meridian: location l of a layout lies at offset layout[l].
Layouts ==
    { <<1, -1>>,
      <<2, 1, -1>>,
      <<1, 0, 2>>,
      <<1, 2, 1, -1>> }

\* the demands of the non-depot locations
Demands == {0, 1, 2}

\* the demand stored with the depot
DepotDemands == {0, 1}

\* fleets of the instances
Fleets ==
    { << [capacity |-> 2, count |-> 1] >>,
      << [capacity |-> 3, count |-> 2] >>,
      << [capacity |-> 1, count |-> 1], [capacity |-> 3, count |-> 1] >>,
      << [capacity |-> 2, count |-> 1], [capacity |-> 2, count |-> 1] >>,
      << [capacity |-> 4, count |-> 1], [capacity |-> 1, count |-> 2] >> }

\* vehicles, locations and depot as createOptimization hands them over
InstancesOf(layout) ==
    [ demand   : {[l \in 0..Len(layout) |-> IF l = Depot THEN d0 ELSE d[l]] :
                    d0 \in DepotDemands, d \in [1..Len(layout) -> Demands]},
      pos      : {[l \in 0..Len(layout) |-> IF l = Depot THEN 0 ELSE layout[l]]},
      vehicles : Fleets ]

Instances == UNION {InstancesOf(layout) : layout \in Layouts}

\* the instances on which the runs of the genetic algorithm are followed
GAInstances == InstancesOf(<<1, -1>>) \cup InstancesOf(<<2, 1, -1>>)

\* nonDepot.length
NumCustomers == Cardinality(DOMAIN inst.pos) - 1

Customers == 1..NumCustomers

Abs(x) == IF x < 0 THEN -x ELSE x

\* calculateDistance on the meridian
calculateDistance(a, b) == Abs(a - b)

\* distances[id1][id2] as every algorithm builds it
distances(a, b) == calculateDistance(inst.pos[a], inst.pos[b])

\* Math.round((dist / 40) * 60) for an integer dist: round(1.5 * dist)
DurationOf(dist) == (3 * dist + 1) \div 2

RECURSIVE SumSeq(_)
SumSeq(q) == IF q = <<>> THEN 0 ELSE Head(q) + SumSeq(Tail(q))

\* the sum over consecutive stops, as recomputeRouteMetrics and its copies do
RECURSIVE StopsDistance(_)
StopsDistance(stops) ==
    IF Len(stops) < 2 THEN 0
    ELSE distances(stops[1].locationId, stops[2].locationId) + StopsDistance(Tail(stops))

\* a stop for location l at position `order`
Stop(l, order) == [locationId |-> l, demand |-> inst.demand[l], order |-> order]

\* stops.map((st, idx) => ({...st, order: idx}))
Renumber(stops) == [k \in DOMAIN stops |-> [stops[k] EXCEPT !.order = k - 1]]

\* vehicles.forEach(v => { for (i < (v.count || 1)) vehicleSlots.push(...) })
RECURSIVE ExpandSlots(_, _)
ExpandSlots(vehicles, t) ==
    IF t > Len(vehicles) THEN <<>>
    ELSE [k \in 1..vehicles[t].count |->
             [type |-> t, capacity |-> vehicles[t].capacity, used |-> FALSE,
              currentLoad |-> 0]]
         \o ExpandSlots(vehicles, t + 1)

vehicleSlots == ExpandSlots(inst.vehicles, 1)

\* the ids of the non-depot stops of a route, in order
Interior(stops) == SubSeq(stops, 2, Len(stops) - 1)

(***************************************************************************)
(* nearestNeighborAlgorithm                                                *)
(***************************************************************************)
\* Lines 963-973: the nearest unused location that fits, the first such in
\* list order on equal distance; 0 when there is none.
RECURSIVE NNBest(_, _, _, _, _)
NNBest(loc, current, remaining, used, best) ==
    IF loc > NumCustomers THEN best
    ELSE IF loc \in used \/ inst.demand[loc] > remaining
         THEN NNBest(loc + 1, current, remaining, used, best)
    ELSE IF best = 0 \/ distances(current, loc) < distances(current, best)
         THEN NNBest(loc + 1, current, remaining, used, loc)
    ELSE NNBest(loc + 1, current, remaining, used, best)

\* Lines 961-987: the while (true) loop of one slot
RECURSIVE NNFill(_, _, _, _)
NNFill(current, remaining, used, rtStops) ==
    LET best == NNBest(1, current, remaining, used, 0) IN
    IF best = 0 THEN [stops |-> rtStops, used |-> used]
    ELSE NNFill(best, remaining - inst.demand[best], used \cup {best},
                Append(rtStops, Stop(best, Len(rtStops))))

\* Line 1012: rtStops.reduce((s, st) => s + (st.demand || 0), 0) - (depot.demand || 0)
NNTotalCapacity(rtStops) ==
    SumSeq([k \in DOMAIN rtStops |-> rtStops[k].demand]) - inst.demand[Depot]

\* Lines 945-1018: the pass over the vehicle slots
RECURSIVE NNSlotPass(_, _, _)
NNSlotPass(s, used, acc) ==
    IF s > Len(vehicleSlots) THEN [routes |-> acc, used |-> used]
    ELSE LET vs == vehicleSlots[s]
             f  == NNFill(Depot, vs.capacity, used, <<Stop(Depot, 0)>>)
             rtStops == Append(f.stops, Stop(Depot, Len(f.stops)))
             acc2 == IF Len(f.stops) > 1
                     THEN Append(acc,
                            [vehicle |-> vs.type,
                             stops |-> rtStops,
                             distance |-> StopsDistance(rtStops),
                             duration |-> DurationOf(StopsDistance(rtStops)),
                             totalCapacity |-> NNTotalCapacity(rtStops),
                             capacityExceeded |-> FALSE])
                     ELSE acc
         IN IF f.used = Customers
            THEN [routes |-> acc2, used |-> f.used]
            ELSE NNSlotPass(s + 1, f.used, acc2)

\* the find of line 1024 looking at the first slot only
FirstSlotCarryingFirstOnly(d) ==
    IF vehicleSlots # <<>> /\ vehicleSlots[1].capacity >= d THEN 1 ELSE 0

\* Line 1024: vehicleSlots.find(v => v.capacity >= loc.demand); 0 when none
FirstSlotCarrying(d) ==
    IF \E k \in DOMAIN vehicleSlots : vehicleSlots[k].capacity >= d
    THEN CHOOSE k \in DOMAIN vehicleSlots :
            /\ vehicleSlots[k].capacity >= d
            /\ \A j \in 1..(k - 1) : vehicleSlots[j].capacity < d
    ELSE 0

\* Lines 1020-1063: the left-over locations as singleton routes
RECURSIVE NNLeftOver(_, _, _)
NNLeftOver(loc, used, acc) ==
    IF loc > NumCustomers THEN acc
    ELSE IF loc \in used \/ FirstSlotCarrying(inst.demand[loc]) = 0
         THEN NNLeftOver(loc + 1, used, acc)
    ELSE NNLeftOver(loc + 1, used \cup {loc},
            Append(acc,
              [vehicle |-> vehicleSlots[FirstSlotCarrying(inst.demand[loc])].type,
               stops |-> <<Stop(Depot, 0), Stop(loc, 1), Stop(Depot, 2)>>,
               distance |-> distances(Depot, loc) * 2,
               duration |-> DurationOf(distances(Depot, loc) * 2),
               totalCapacity |-> inst.demand[loc],
               capacityExceeded |-> FALSE]))

nearestNeighborAlgorithm ==
    LET p == NNSlotPass(1, {}, <<>>) IN NNLeftOver(1, p.used, p.routes)

(***************************************************************************)
(* sweepAlgorithm                                                          *)
(***************************************************************************)
\* Line 1314: Math.atan2(lat - depot.lat, lon - depot.lon) on the meridian is
\* -pi/2, 0 or pi/2; the rank -1, 0, 1 orders the same way.
Angle(l) ==
    IF inst.pos[l] < inst.pos[Depot] THEN -1
    ELSE IF inst.pos[l] = inst.pos[Depot] THEN 0 ELSE 1

\* Line 1318: nonDepot.sort((a, b) => a.angle - b.angle), a stable sort
SortedByAngle ==
    SelectSeq([k \in 1..NumCustomers |-> k], LAMBDA l : Angle(l) = -1)
    \o SelectSeq([k \in 1..NumCustomers |-> k], LAMBDA l : Angle(l) = 0)
    \o SelectSeq([k \in 1..NumCustomers |-> k], LAMBDA l : Angle(l) = 1)

\* Line 1348: the first slot among the first n that still admits demand d; 0 if none
FirstAdmitting(loads, caps, n, d) ==
    IF \E k \in 1..n : loads[k] + d <= caps[k]
    THEN CHOOSE k \in 1..n :
            /\ loads[k] + d <= caps[k]
            /\ \A j \in 1..(k - 1) : loads[j] + d > caps[j]
    ELSE 0

\* Lines 1344-1382: the packing loop.  st = [stops, loads, idx]; idx is
\* currentVehicleIndex (0-based).
RECURSIVE SweepPack(_, _)
SweepPack(order, st) ==
    IF order = <<>> THEN st
    ELSE LET l == Head(order)
             d == inst.demand[l]
             caps == [k \in DOMAIN vehicleSlots |-> vehicleSlots[k].capacity]
             n == Min2(Len(vehicleSlots), st.idx + 1)
             k == FirstAdmitting(st.loads, caps, n, d)
             put(j) == [st EXCEPT !.stops[j] = Append(@, Stop(l, Len(@))),
                                  !.loads[j] = @ + d]
         IN IF k # 0 THEN SweepPack(Tail(order), put(k))
            ELSE IF st.idx < Len(vehicleSlots)
                 THEN LET j == st.idx + 1
                          st2 == IF st.loads[j] + d <= caps[j] THEN put(j) ELSE st
                      IN SweepPack(Tail(order), [st2 EXCEPT !.idx = @ + 1])
            ELSE SweepPack(Tail(order), st)

\* Lines 1384-1417: close the used slots
RECURSIVE SweepClose(_, _)
SweepClose(st, k) ==
    IF k > Len(vehicleSlots) THEN <<>>
    ELSE (IF Len(st.stops[k]) > 1
          THEN LET stops == Append(st.stops[k], Stop(Depot, Len(st.stops[k]))) IN
               << [vehicle |-> vehicleSlots[k].type,
                   stops |-> stops,
                   distance |-> StopsDistance(stops),
                   duration |-> DurationOf(StopsDistance(stops)),
                   totalCapacity |-> st.loads[k],
                   capacityExceeded |-> FALSE] >>
          ELSE <<>>)
         \o SweepClose(st, k + 1)

sweepAlgorithm ==
    SweepClose(
        SweepPack(SortedByAngle,
                  [stops |-> [k \in DOMAIN vehicleSlots |-> <<Stop(Depot, 0)>>],
                   loads |-> [k \in DOMAIN vehicleSlots |-> 0],
                   idx |-> 0]),
        1)

(***************************************************************************)
(* Sequence helpers in the shape of the JavaScript the code uses.          *)
(***************************************************************************)
\* q.slice(a, b) with 0-based a <= b <= q.length
Slice(q, a, b) == SubSeq(q, a + 1, b)

\* q.slice(a)
SliceFrom(q, a) == SubSeq(q, a + 1, Len(q))

Reverse(q) == [k \in DOMAIN q |-> q[Len(q) + 1 - k]]

\* q with the element at (1-based) index k removed
RemoveAt(q, k) == SubSeq(q, 1, k - 1) \o SubSeq(q, k + 1, Len(q))

\* the position of the first element of q satisfying P; 0 when none
FirstIndex(q, P(_)) ==
    IF \E k \in DOMAIN q : P(q[k])
    THEN CHOOSE k \in DOMAIN q : P(q[k]) /\ \A j \in 1..(k - 1) : ~P(q[j])
    ELSE 0

\* Array.prototype.sort is stable: the permutation that sorts integer keys
\* ascending and keeps the order of equal keys.  before[x] counts the
\* elements that go before x: those of a smaller key and those of an equal
\* key that stand before it; the element at place r is the one with r - 1
\* before it.  (The comparisons keys = keys and before = before hold always;
\* they make TLC compute the two functions once.)
SortPerm(keys, n) ==
    LET before == [x \in 1..n |->
                     Cardinality({m \in 1..n : keys[m] < keys[x] \/ (keys[m] = keys[x] /\ m < x)})]
    IN IF keys = keys /\ before = before
       THEN [r \in 1..n |-> CHOOSE x \in 1..n : before[x] = r - 1]
       ELSE <<>>

SortAscending(q, keys) == LET p == SortPerm(keys, Len(q)) IN [k \in DOMAIN q |-> q[p[k]]]

SortDescending(q, keys) == SortAscending(q, [k \in DOMAIN keys |-> -keys[k]])

\* routes.sort((a, b) => b.totalCapacity - a.totalCapacity)
SortRoutesDescending(rs) == SortDescending(rs, [k \in DOMAIN rs |-> rs[k].totalCapacity])

\* routes.sort((a, b) => a.totalCapacity - b.totalCapacity)
SortRoutesAscending(rs) == SortAscending(rs, [k \in DOMAIN rs |-> rs[k].totalCapacity])

\* vehicleSlots.sort((a, b) => b.capacity - a.capacity)
SortSlotsDescending(sl) == SortDescending(sl, [k \in DOMAIN sl |-> sl[k].capacity])

\* Math.max(...vehicles.map(v => v.capacity || 0))
maxCapacity ==
    CHOOSE c \in {inst.vehicles[t].capacity : t \in DOMAIN inst.vehicles} :
        \A t \in DOMAIN inst.vehicles : inst.vehicles[t].capacity <= c

\* a route object with its metrics recomputed from its stops
MakeRoute(vehicle, stops, totalCapacity, capacityExceeded) ==
    [ vehicle |-> vehicle,
      stops |-> stops,
      distance |-> StopsDistance(stops),
      duration |-> DurationOf(StopsDistance(stops)),
      totalCapacity |-> totalCapacity,
      capacityExceeded |-> capacityExceeded ]

\* recomputeRouteMetrics leaving the cached metrics as they are
recomputeRouteMetricsStale(rt) == rt

\* recomputeRouteMetrics(rt), lines 517-528 (and 1203-1214, 2450-2464)
recomputeRouteMetrics(rt) ==
    [rt EXCEPT !.distance = StopsDistance(rt.stops),
               !.duration = DurationOf(StopsDistance(rt.stops))]

(***************************************************************************)
(* clarkeWrightAlgorithm                                                   *)
(***************************************************************************)
\* Lines 461-484: one route depot -> i -> depot per non-depot location
InitialRoutes ==
    [l \in 1..NumCustomers |->
        MakeRoute(0, <<Stop(Depot, 0), Stop(l, 1), Stop(Depot, 2)>>, inst.demand[l], FALSE)]

\* Lines 488-498: the pairs i < j in generation order
RECURSIVE PairsFrom(_, _)
PairsFrom(i, j) ==
    IF i >= NumCustomers THEN <<>>
    ELSE IF j > NumCustomers THEN PairsFrom(i + 1, i + 2)
    ELSE <<[i |-> i, j |-> j]>> \o PairsFrom(i, j + 1)

\* Line 495
BasicSaving(i, j) == distances(Depot, i) + distances(Depot, j) - distances(i, j)

\* the savings list of lines 487-499 with only the pairs of a positive saving
CWSavingsPositiveOnly ==
    LET pairs == SelectSeq(PairsFrom(1, 2), LAMBDA x : BasicSaving(x.i, x.j) > 0) IN
    SortDescending(pairs, [k \in DOMAIN pairs |-> BasicSaving(pairs[k].i, pairs[k].j)])

\* Line 499: savings.sort((a, b) => b.saving - a.saving)
CWSavings ==
    LET pairs == PairsFrom(1, 2) IN
    SortDescending(pairs, [k \in DOMAIN pairs |-> BasicSaving(pairs[k].i, pairs[k].j)])

\* Lines 503-512: findRouteIndexByLocation; 0 when no route holds the location
RouteIndexOf(rs, l) ==
    FirstIndex(rs, LAMBDA rt : \E k \in DOMAIN rt.stops : rt.stops[k].locationId = l)

StopIndexOf(rt, l) == FirstIndex(rt.stops, LAMBDA st : st.locationId = l)

\* the capacity test of line 568 left out: every end-to-start pair is merged
ExceedsMaxCapacityNever(combinedDemand) == FALSE

\* Lines 567-568 (and 1243-1244): if (combinedDemand > maxCapacity) continue
ExceedsMaxCapacity(combinedDemand) == combinedDemand > maxCapacity

\* the merge of lines 531-587 without the splice of line 585 that removes the
\* route the merged one has absorbed
MergeOnSavingKeepBoth(rs, s) ==
    LET pi == RouteIndexOf(rs, s.i)
        pj == RouteIndexOf(rs, s.j)
    IN IF pi = 0 \/ pj = 0 \/ pi = pj THEN rs
       ELSE LET r1 == rs[pi]
                r2 == rs[pj]
                si == StopIndexOf(r1, s.i)
                sj == StopIndexOf(r2, s.j)
                \* 1-based: the first non-depot stop is 2, the last is Len - 1
                iAtEndOfR1 == si = Len(r1.stops) - 1
                iAtStartOfR1 == si = 2
                jAtEndOfR2 == sj = Len(r2.stops) - 1
                jAtStartOfR2 == sj = 2
                newStops ==
                    IF iAtEndOfR1 /\ jAtStartOfR2
                    THEN Slice(r1.stops, 0, Len(r1.stops) - 1) \o SliceFrom(r2.stops, 1)
                    ELSE IF jAtEndOfR2 /\ iAtStartOfR1
                    THEN Slice(r2.stops, 0, Len(r2.stops) - 1) \o SliceFrom(r1.stops, 1)
                    ELSE <<>>
                combinedDemand == r1.totalCapacity + r2.totalCapacity
                merged == MakeRoute(0, Renumber(newStops), combinedDemand, FALSE)
                idxToRemove == Max2(pi, pj)
                idxToReplace == Min2(pi, pj)
            IN IF newStops = <<>> THEN rs
               ELSE IF ExceedsMaxCapacity(combinedDemand) THEN rs
               ELSE [rs EXCEPT ![idxToReplace] = merged]

\* Lines 531-587 (and 1217-1261): what one saving does to the routes
MergeOnSaving(rs, s) ==
    LET pi == RouteIndexOf(rs, s.i)
        pj == RouteIndexOf(rs, s.j)
    IN IF pi = 0 \/ pj = 0 \/ pi = pj THEN rs
       ELSE LET r1 == rs[pi]
                r2 == rs[pj]
                si == StopIndexOf(r1, s.i)
                sj == StopIndexOf(r2, s.j)
                \* 1-based: the first non-depot stop is 2, the last is Len - 1
                iAtEndOfR1 == si = Len(r1.stops) - 1
                iAtStartOfR1 == si = 2
                jAtEndOfR2 == sj = Len(r2.stops) - 1
                jAtStartOfR2 == sj = 2
                newStops ==
                    IF iAtEndOfR1 /\ jAtStartOfR2
                    THEN Slice(r1.stops, 0, Len(r1.stops) - 1) \o SliceFrom(r2.stops, 1)
                    ELSE IF jAtEndOfR2 /\ iAtStartOfR1
                    THEN Slice(r2.stops, 0, Len(r2.stops) - 1) \o SliceFrom(r1.stops, 1)
                    ELSE <<>>
                combinedDemand == r1.totalCapacity + r2.totalCapacity
                merged == MakeRoute(0, Renumber(newStops), combinedDemand, FALSE)
                idxToRemove == Max2(pi, pj)
                idxToReplace == Min2(pi, pj)
            IN IF newStops = <<>> THEN rs
               ELSE IF ExceedsMaxCapacity(combinedDemand) THEN rs
               ELSE [RemoveAt(rs, idxToRemove) EXCEPT ![idxToReplace] = merged]

\* Lines 598-635: the first pair a < b (in loop order) within capacity; the
\* matrix holds every pair, so the endpoint test of line 610 always passes.
RECURSIVE PressurePair(_, _, _)
PressurePair(rs, a, b) ==
    IF a >= Len(rs) THEN <<>>
    ELSE IF b > Len(rs) THEN PressurePair(rs, a + 1, a + 2)
    ELSE IF rs[a].totalCapacity + rs[b].totalCapacity > maxCapacity
         THEN PressurePair(rs, a, b + 1)
    ELSE <<a, b>>

totalVehicleSlots == SumSeq([t \in DOMAIN inst.vehicles |-> inst.vehicles[t].count])

\* Lines 589-638: merge smallest-demand routes while there are more routes than slots
RECURSIVE SlotPressure(_, _)
SlotPressure(rs, guard) ==
    IF ~(Len(rs) > totalVehicleSlots /\ guard < 1000) THEN rs
    ELSE LET sorted == SortRoutesAscending(rs)
             ab == PressurePair(sorted, 1, 2)
         IN IF ab = <<>> THEN sorted
            ELSE LET ra == sorted[ab[1]]
                     rb == sorted[ab[2]]
                     ns == Slice(ra.stops, 0, Len(ra.stops) - 1) \o SliceFrom(rb.stops, 1)
                     mergedR == MakeRoute(0, Renumber(ns),
                                          ra.totalCapacity + rb.totalCapacity, FALSE)
                 IN SlotPressure([RemoveAt(sorted, ab[2]) EXCEPT ![ab[1]] = mergedR],
                                 guard + 1)

\* Line 661 / 790: vehicleSlots.find(vs => !vs.used && vs.capacity >= required)
FirstUnusedSlot(sl, required) ==
    FirstIndex(sl, LAMBDA vs : ~vs.used /\ vs.capacity >= required)

\* Lines 658-661: the slot route k takes in the first pass; 0 when the route
\* has a vehicle already or no slot is found.  st = [routes, slots].
CWFirstPassSlot(st, k) ==
    IF st.routes[k].vehicle # 0 THEN 0
    ELSE FirstUnusedSlot(st.slots, st.routes[k].totalCapacity)

\* Lines 658-668: the body of the first pass for route k
CWFirstPassOne(st, k) ==
    LET r == st.routes[k]
        slot == CWFirstPassSlot(st, k)
    IN IF slot = 0 THEN st
       ELSE [routes |-> [st.routes EXCEPT ![k].vehicle = st.slots[slot].type,
                                          ![k].capacityExceeded = FALSE],
             slots |-> [st.slots EXCEPT ![slot].used = TRUE,
                                        ![slot].currentLoad = r.totalCapacity]]

\* Lines 657-669: the first pass from route k on
RECURSIVE CWFirstPass(_, _)
CWFirstPass(st, k) ==
    IF k > Len(st.routes) THEN st
    ELSE CWFirstPass(CWFirstPassOne(st, k), k + 1)

\* Line 679: vehicleSlots.find(vs => vs.used && vs.capacity - vs.currentLoad >= required)
FirstUsedSlotWithRoom(sl, required) ==
    FirstIndex(sl, LAMBDA vs : vs.used /\ vs.capacity - vs.currentLoad >= required)

\* Lines 672-710: the second pass over the routes left without a vehicle.
\* The merged stops are the same objects in both routes, so the renumbering
\* of line 696 shows in the unassigned route too, which stays in the list.
RECURSIVE CWSecondPass(_, _)
CWSecondPass(st, todo) ==
    IF todo = <<>> THEN st
    ELSE LET u == FirstIndex(st.routes, LAMBDA r : r.stops = Head(todo).stops)
             unassignedRoute == st.routes[u]
             requiredCapacity == unassignedRoute.totalCapacity
             slot == FirstUsedSlotWithRoom(st.slots, requiredCapacity)
             e == IF slot = 0 THEN 0
                  ELSE FirstIndex(st.routes,
                                  LAMBDA r : r.vehicle # 0 /\ r.vehicle = st.slots[slot].type)
         IN IF slot = 0 \/ e = 0 THEN CWSecondPass(st, Tail(todo))
            ELSE LET existingRoute == st.routes[e]
                     keep == Len(existingRoute.stops) - 1
                     newStops == Renumber(Slice(existingRoute.stops, 0, keep)
                                          \o Interior(unassignedRoute.stops)
                                          \o <<existingRoute.stops[keep + 1]>>)
                     aliased == [k \in DOMAIN unassignedRoute.stops |->
                                   IF k = 1 \/ k = Len(unassignedRoute.stops)
                                   THEN unassignedRoute.stops[k]
                                   ELSE newStops[keep + k - 1]]
                 IN CWSecondPass(
                      [routes |-> [st.routes EXCEPT
                                     ![e] = MakeRoute(existingRoute.vehicle, newStops,
                                                      existingRoute.totalCapacity + requiredCapacity,
                                                      existingRoute.capacityExceeded),
                                     ![u].stops = aliased,
                                     ![u].vehicle = st.slots[slot].type,
                                     ![u].capacityExceeded = FALSE],
                       slots |-> [st.slots EXCEPT ![slot].currentLoad = @ + requiredCapacity]],
                      Tail(todo))

\* Line 753: vehicleSlots.find(vs => !vs.used && vs.capacity >= stopDemand) is
\* FirstUnusedSlot.  Lines 726-781: the split of one route over the free slots.
\* w = [routes, slots, cur, load, av]: cur the open route's stops, av its slot (0: none).
RECURSIVE CWSplit(_, _, _)
CWSplit(w, middleStops, lastStop) ==
    IF middleStops = <<>>
    THEN IF w.av # 0 /\ Len(w.cur) > 1
         THEN [w EXCEPT !.routes = Append(@,
                 MakeRoute(w.slots[w.av].type, Renumber(Append(w.cur, lastStop)),
                           w.load, FALSE))]
         ELSE w
    ELSE LET stop == Head(middleStops)
             stopDemand == stop.demand
             closes == w.av # 0 /\ w.load + stopDemand > w.slots[w.av].capacity
             w1 == IF closes
                   THEN [w EXCEPT !.routes = Append(@,
                           MakeRoute(w.slots[w.av].type, Renumber(Append(w.cur, lastStop)),
                                     w.load, FALSE)),
                                  !.cur = <<w.cur[1]>>,
                                  !.load = 0,
                                  !.av = 0]
                   ELSE w
             found == IF w1.av # 0 THEN w1.av ELSE FirstUnusedSlot(w1.slots, stopDemand)
         IN IF found = 0 THEN CWSplit(w1, Tail(middleStops), lastStop)
            ELSE CWSplit([w1 EXCEPT !.slots[found].used = TRUE,
                                    !.av = found,
                                    !.cur = Append(@, stop),
                                    !.load = @ + stopDemand],
                         Tail(middleStops), lastStop)

\* Lines 713-805: the third pass.  A route that stays without a vehicle keeps
\* vehicle 0 (null); a route built by the split has no capacityExceeded field (FALSE).
RECURSIVE CWThirdPass(_, _)
CWThirdPass(st, todo) ==
    IF todo = <<>> THEN st
    ELSE LET u == FirstIndex(st.routes, LAMBDA r : r = Head(todo))
             unassignedRoute == Head(todo)
             requiredCapacity == unassignedRoute.totalCapacity
         IN IF Len(unassignedRoute.stops) > 3
            THEN LET w == CWSplit([routes |-> st.routes, slots |-> st.slots,
                                   cur |-> <<unassignedRoute.stops[1]>>, load |-> 0, av |-> 0],
                                  Interior(unassignedRoute.stops),
                                  unassignedRoute.stops[Len(unassignedRoute.stops)])
                 IN CWThirdPass([routes |-> IF u > 0 THEN RemoveAt(w.routes, u) ELSE w.routes,
                                 slots |-> w.slots],
                                Tail(todo))
            ELSE LET slot == FirstUnusedSlot(st.slots, requiredCapacity) IN
                 IF slot # 0
                 THEN CWThirdPass(
                        [routes |-> [st.routes EXCEPT ![u].vehicle = st.slots[slot].type,
                                                      ![u].capacityExceeded = FALSE],
                         slots |-> [st.slots EXCEPT ![slot].used = TRUE,
                                                    ![slot].currentLoad = requiredCapacity]],
                        Tail(todo))
                 ELSE CWThirdPass(
                        [st EXCEPT !.routes[u].capacityExceeded = TRUE,
                                   !.routes[u].vehicle = 0],
                        Tail(todo))

\* routes.filter(r => !r.vehicle)
Unassigned(rs) == SelectSeq(rs, LAMBDA r : r.vehicle = 0)

(***************************************************************************)
(* improveRouteWithLocalSearch                                             *)
(***************************************************************************)
\* calcDist(seq) is StopsDistance(seq).
\* Line 845 (and 898, 1434): seq with seq[i..k] (0-based, inclusive) reversed
TwoOptMove(seq, i, k) ==
    Slice(seq, 0, i) \o Reverse(Slice(seq, i, k + 1)) \o SliceFrom(seq, k + 1)

\* the pass of lines 843-851 with a move taken also when it is not shorter
RECURSIVE TwoOptSweepAcceptEqual(_, _, _, _)
TwoOptSweepAcceptEqual(seq, i, k, improved) ==
    IF ~(i < Len(seq) - 2) THEN [seq |-> seq, improved |-> improved]
    ELSE IF ~(k < Len(seq) - 1) THEN TwoOptSweepAcceptEqual(seq, i + 1, i + 2, improved)
    ELSE LET newSeq == TwoOptMove(seq, i, k) IN
         IF StopsDistance(newSeq) <= StopsDistance(seq)
         THEN TwoOptSweepAcceptEqual(newSeq, i, k + 1, TRUE)
         ELSE TwoOptSweepAcceptEqual(seq, i, k + 1, improved)

\* Lines 843-851: one sweep over i, k; an improving move replaces seq at once
\* and the sweep goes on.  Distances are whole numbers, so the tolerance
\* 1e-9 of the comparison never decides.
RECURSIVE TwoOptSweep(_, _, _, _)
TwoOptSweep(seq, i, k, improved) ==
    IF ~(i < Len(seq) - 2) THEN [seq |-> seq, improved |-> improved]
    ELSE IF ~(k < Len(seq) - 1) THEN TwoOptSweep(seq, i + 1, i + 2, improved)
    ELSE LET newSeq == TwoOptMove(seq, i, k) IN
         IF StopsDistance(newSeq) < StopsDistance(seq)
         THEN TwoOptSweep(newSeq, i, k + 1, TRUE)
         ELSE TwoOptSweep(seq, i, k + 1, improved)

\* Lines 839-852: while (improved)
RECURSIVE TwoOpt(_)
TwoOpt(seq) ==
    LET r == TwoOptSweep(seq, 1, 2, FALSE) IN
    IF r.improved THEN TwoOpt(r.seq) ELSE r.seq

\* Lines 863-870: B.reverse() and C.reverse() reverse in place while the array
\* literal is evaluated, so the six candidates are these.
ThreeOptCandidates(A, B, C, D) ==
    << A \o B \o C \o D,
       A \o Reverse(B) \o C \o D,
       A \o Reverse(B) \o Reverse(C) \o D,
       A \o Reverse(C) \o Reverse(B) \o D,
       A \o C \o Reverse(B) \o D,
       A \o B \o Reverse(C) \o D >>

\* Lines 871-880: the first candidate of the least distance, if below seq's
RECURSIVE BestCandidate(_, _, _)
BestCandidate(cands, best, bestD) ==
    IF cands = <<>> THEN best
    ELSE IF StopsDistance(Head(cands)) < bestD
         THEN BestCandidate(Tail(cands), Head(cands), StopsDistance(Head(cands)))
         ELSE BestCandidate(Tail(cands), best, bestD)

\* Lines 855-889: threeOptOnce; <<>> when no triple improves
RECURSIVE ThreeOptFrom(_, _, _, _)
ThreeOptFrom(seq, i, j, k) ==
    IF ~(i < Len(seq) - 3) THEN <<>>
    ELSE IF ~(j < Len(seq) - 2) THEN ThreeOptFrom(seq, i + 1, i + 2, i + 3)
    ELSE IF ~(k < Len(seq) - 1) THEN ThreeOptFrom(seq, i, j + 1, j + 2)
    ELSE LET best == BestCandidate(
                        ThreeOptCandidates(Slice(seq, 0, i), Slice(seq, i, j),
                                           Slice(seq, j, k), SliceFrom(seq, k)),
                        <<>>, StopsDistance(seq))
         IN IF best # <<>> THEN best ELSE ThreeOptFrom(seq, i, j, k + 1)

threeOptOnce(seq) == ThreeOptFrom(seq, 1, 2, 3)

\* Lines 817-921
improveRouteWithLocalSearch(route) ==
    IF Len(route.stops) < 3 THEN route
    ELSE LET seq2 == TwoOpt(route.stops)
             seq3 == threeOptOnce(seq2)
             seq == IF seq3 # <<>> THEN TwoOpt(seq3) ELSE seq2
         IN [route EXCEPT !.stops = Renumber(seq),
                          !.distance = StopsDistance(seq),
                          !.duration = DurationOf(StopsDistance(seq))]

\* Lines 531-587 as a whole
RECURSIVE CWMergeAll(_, _)
CWMergeAll(rs, savings) ==
    IF savings = <<>> THEN rs ELSE CWMergeAll(MergeOnSaving(rs, Head(savings)), Tail(savings))

\* Lines 589-638
CWAfterPressure(rs) == IF totalVehicleSlots > 0 THEN SlotPressure(rs, 0) ELSE rs

\* Lines 640-654: the slots, and both lists sorted, before the first pass
CWSorted(rs) ==
    [routes |-> SortRoutesDescending(SortRoutesDescending(rs)),
     slots  |-> SortSlotsDescending(vehicleSlots)]

\* Lines 672-805: the second and the third pass
CWLaterPasses(p1) ==
    LET p2 == CWSecondPass(p1, Unassigned(p1.routes))
        p3 == CWThirdPass(p2, Unassigned(p2.routes))
    IN p3.routes

\* Lines 640-805: the three assignment passes
CWAssign(rs) == CWLaterPasses(CWFirstPass(CWSorted(rs), 1))

\* Lines 807-813
CWRefine(rs) == [k \in DOMAIN rs |-> improveRouteWithLocalSearch(recomputeRouteMetrics(rs[k]))]

\* Lines 425-815
clarkeWrightAlgorithm == CWRefine(CWAssign(CWAfterPressure(CWMergeAll(InitialRoutes, CWSavings))))

(***************************************************************************)
(* enhancedClarkeWrightAlgorithm                                           *)
(***************************************************************************)
\* Lines 1103-1106: angularBonus doubled.  On the meridian atan2 is -pi/2, 0
\* or pi/2, so the bonus is 0, 1/2 or 1.
AngularBonus2(i, j) == Abs(Angle(i) - Angle(j))

\* Lines 1100-1135: enhancedSaving as the fraction n / d of whole numbers
\* (the factors 1/40, 1/50 and 1/(5 * maxVehicleCapacity), common to all
\* pairs, left out):
\*   1 + angularBonus * 0.15   = (40 + 3 * bonus2) / 40
\*   capacityCompatibility     = 1 or max(combined, 10 * cap) / (10 * combined)
\*   urgencyFactor             = min(6 * cap, 5 * cap + combined) / (5 * cap)
\*   distanceEfficiency        = max(40, 50 - dist) / 50
EnhancedSaving(i, j) ==
    LET combinedDemand == inst.demand[i] + inst.demand[j]
        compatible == combinedDemand <= maxCapacity
    IN [ n |-> BasicSaving(i, j)
               * (40 + 3 * AngularBonus2(i, j))
               * (IF compatible THEN 1 ELSE Max2(combinedDemand, 10 * maxCapacity))
               * Min2(6 * maxCapacity, 5 * maxCapacity + combinedDemand)
               * Max2(40, 50 - distances(i, j)),
         d |-> IF compatible THEN 1 ELSE 10 * combinedDemand ]

\* x.saving > y.saving
GreaterSaving(x, y) == x.n * y.d > y.n * x.d

\* Line 1151: savings.sort((a, b) => b.saving - a.saving); a pair's key is
\* the number of pairs of a greater saving
ECWSavings ==
    LET pairs == PairsFrom(1, 2)
        sv == [k \in DOMAIN pairs |-> EnhancedSaving(pairs[k].i, pairs[k].j)]
    IN SortAscending(pairs,
          [k \in DOMAIN pairs |->
              Cardinality({m \in DOMAIN pairs : GreaterSaving(sv[m], sv[k])})])

\* Lines 1284-1287 (and 2366-2369): the unused slot that fits with the least
\* room left, the first such in slot order; 0 when none
BestSlot(sl, required) ==
    FirstIndex([k \in DOMAIN sl |-> [k |-> k, vs |-> sl[k]]],
               LAMBDA x :
                  /\ ~x.vs.used /\ x.vs.capacity >= required
                  /\ \A m \in DOMAIN sl :
                        (~sl[m].used /\ sl[m].capacity >= required)
                        => x.vs.capacity - (x.vs.currentLoad + required)
                           <= sl[m].capacity - (sl[m].currentLoad + required))

\* Lines 1283-1295 (and 2365-2377): the best-fit loop; a route that finds no
\* slot keeps the vehicle it had
BestFitOne(st, k) ==
    LET slot == BestSlot(st.slots, st.routes[k].totalCapacity) IN
    IF slot = 0 THEN st
    ELSE [routes |-> [st.routes EXCEPT ![k].vehicle = st.slots[slot].type],
          slots |-> [st.slots EXCEPT ![slot].used = TRUE,
                                     ![slot].currentLoad = @ + st.routes[k].totalCapacity]]

\* Lines 1283-1295 (and 2365-2377): the loop from route k on
RECURSIVE BestFit(_, _)
BestFit(st, k) ==
    IF k > Len(st.routes) THEN st.routes
    ELSE BestFit(BestFitOne(st, k), k + 1)

\* Lines 1264-1280 (and 2348-2363): the slots, and both lists sorted
BestFitSorted(rs) ==
    [routes |-> SortRoutesDescending(rs), slots |-> SortSlotsDescending(vehicleSlots)]

\* Lines 2347-2382
assignVehiclesToRoutes(rs) == BestFit(BestFitSorted(rs), 1)

(***************************************************************************)
(* enhancedLocalSearch                                                     *)
(***************************************************************************)
\* the insertions of lines 1463-1473 with j running up to remaining.length,
\* the segment put behind the last stop too
RECURSIVE OrOptInsertPastLast(_, _, _, _)
OrOptInsertPastLast(seq, segment, remaining, j) ==
    IF ~(j <= Len(remaining)) THEN seq
    ELSE LET newSeq == Slice(remaining, 0, j) \o segment \o SliceFrom(remaining, j) IN
         OrOptInsertPastLast(IF StopsDistance(newSeq) < StopsDistance(seq) THEN newSeq ELSE seq,
                             segment, remaining, j + 1)

\* Lines 1463-1473: the insertion points j of one segment; seq changes as
\* soon as a candidate is shorter, segment and remaining do not
RECURSIVE OrOptInsert(_, _, _, _)
OrOptInsert(seq, segment, remaining, j) ==
    IF ~(j < Len(remaining)) THEN seq
    ELSE LET newSeq == Slice(remaining, 0, j) \o segment \o SliceFrom(remaining, j) IN
         OrOptInsert(IF StopsDistance(newSeq) < StopsDistance(seq) THEN newSeq ELSE seq,
                     segment, remaining, j + 1)

\* Lines 1459-1474: the segments of one length
RECURSIVE OrOptLength(_, _, _)
OrOptLength(seq, length, i) ==
    IF ~(i < Len(seq) - length - 1) THEN seq
    ELSE OrOptLength(
            OrOptInsert(seq, Slice(seq, i, i + length),
                        Slice(seq, 0, i) \o SliceFrom(seq, i + length), 1),
            length, i + 1)

\* Lines 1458-1475
OrOpt(seq) == OrOptLength(OrOptLength(OrOptLength(seq, 1, 1), 2, 1), 3, 1)

\* Lines 1421-1491
enhancedLocalSearch(route) ==
    IF Len(route.stops) < 4 THEN route
    ELSE LET seq == OrOpt(TwoOpt(route.stops)) IN
         [route EXCEPT !.stops = Renumber(seq),
                       !.distance = StopsDistance(seq),
                       !.duration = DurationOf(StopsDistance(seq))]

RECURSIVE ECWMergeAll(_, _)
ECWMergeAll(rs, savings) ==
    IF rs = <<>> \/ savings = <<>> THEN rs
    ELSE ECWMergeAll(MergeOnSaving(rs, Head(savings)), Tail(savings))

\* Lines 1297-1302: the local search on every route
ECWRefine(assigned) == [k \in DOMAIN assigned |-> enhancedLocalSearch(assigned[k])]

\* Lines 1263-1302: best-fit assignment, local search, return
ECWAssignAndRefine(rs) == ECWRefine(assignVehiclesToRoutes(rs))

\* Lines 1069-1303
enhancedClarkeWrightAlgorithm == ECWAssignAndRefine(ECWMergeAll(InitialRoutes, ECWSavings))

(***************************************************************************)
(* Helpers of the metaheuristics                                           *)
(***************************************************************************)
\* Lines 2437-2448
calculateTotalCost(solution) ==
    SumSeq([k \in DOMAIN solution |-> StopsDistance(solution[k].stops)])

\* Lines 2450-2464
recomputeAllRouteMetrics(solution) ==
    [k \in DOMAIN solution |-> recomputeRouteMetrics(solution[k])]

\* Line 2468: route.stops.map(stop => stop.locationId.toString()).join('-'),
\* as a number that is different for different sequences of locations
RECURSIVE RouteKey(_, _)
RouteKey(stops, k) ==
    IF k = 0 THEN 0
    ELSE RouteKey(stops, k - 1) * (NumCustomers + 2) + stops[k].locationId + 1

\* Lines 2466-2470: the routes' keys, sorted and joined
generateSolutionKey(solution) ==
    LET keys == [k \in DOMAIN solution |-> RouteKey(solution[k].stops, Len(solution[k].stops))]
    IN SortAscending(keys, keys)

\* q with the elements at (1-based) a and b exchanged
Swap(q, a, b) == [q EXCEPT ![a] = q[b], ![b] = q[a]]

(***************************************************************************)
(* tabuSearchVRP                                                           *)
(***************************************************************************)
\* Lines 1532-1546: the neighbours made from route r, pairs i < j of its
\* middle stops in loop order; the orders of the stops stay as they were
RECURSIVE RouteNeighbors(_, _, _, _)
RouteNeighbors(solution, r, i, j) ==
    LET n == Len(solution[r].stops) - 2 IN
    IF ~(i < n - 1) THEN <<>>
    ELSE IF ~(j < n) THEN RouteNeighbors(solution, r, i + 1, i + 2)
    ELSE << recomputeAllRouteMetrics(
              [solution EXCEPT ![r].stops = Swap(@, i + 2, j + 2)]) >>
         \o RouteNeighbors(solution, r, i, j + 1)

RECURSIVE NeighborsFrom(_, _)
NeighborsFrom(solution, r) ==
    IF r > Len(solution) THEN <<>>
    ELSE (IF Len(solution[r].stops) < 4 THEN <<>> ELSE RouteNeighbors(solution, r, 0, 1))
         \o NeighborsFrom(solution, r + 1)

\* the neighbours of lines 1524-1550 after the exchanges of the first
\* customers of two routes that follow each other
generateNeighborsAcrossRoutes(solution) ==
    LET across == [r \in 1..(Len(solution) - 1) |->
                     recomputeAllRouteMetrics(
                        [solution EXCEPT ![r].stops[2] = solution[r + 1].stops[2],
                                         ![r + 1].stops[2] = solution[r].stops[2]])]
        all == across \o NeighborsFrom(solution, 1)
    IN SubSeq(all, 1, Min2(Len(all), 50))

\* Lines 1524-1550
generateNeighbors(solution) ==
    LET all == NeighborsFrom(solution, 1) IN SubSeq(all, 1, Min2(Len(all), 50))

\* Lines 1556-1567: the first neighbour of the least cost that is not tabu; 0 when none
RECURSIVE BestNeighbor(_, _, _, _)
BestNeighbor(neighbors, tabuList, k, best) ==
    IF k > Len(neighbors) THEN best
    ELSE IF generateSolutionKey(neighbors[k]) \notin {e.key : e \in tabuList}
            /\ (best = 0 \/ calculateTotalCost(neighbors[k]) < calculateTotalCost(neighbors[best]))
         THEN BestNeighbor(neighbors, tabuList, k + 1, k)
         ELSE BestNeighbor(neighbors, tabuList, k + 1, best)

\* Line 1520: Math.min(15, Math.max(5, nonDepot.length / 2)), doubled to stay whole
tabuTenure2 == Min2(30, Max2(10, NumCustomers))

\* Line 1521
tabuMaxIterations == Min2(100, Max2(20, NumCustomers * 3))

(***************************************************************************)
(* simulatedAnnealingVRP                                                   *)
(***************************************************************************)
\* generateNeighbor with i and j drawn from all the positions of the route
SANeighborsAnyStop(solution) ==
    {solution} \cup
    (IF Len(solution) >= 2
     THEN { recomputeAllRouteMetrics([solution EXCEPT ![r].stops = Swap(@, i, j)]) :
              <<r, i, j>> \in
                { x \in (DOMAIN solution) \X (1..(NumCustomers + 2)) \X (1..(NumCustomers + 2)) :
                    /\ Len(solution[x[1]].stops) >= 4
                    /\ x[2] <= Len(solution[x[1]].stops)
                    /\ x[3] <= Len(solution[x[1]].stops)
                    /\ x[2] # x[3] } }
     ELSE {})

\* Lines 1624-1643: the neighbours generateNeighbor can return.  routeIndex,
\* i and j are the three draws; i and j range over 1 .. stops.length - 3.
SANeighbors(solution) ==
    {solution} \cup
    (IF Len(solution) >= 2
     THEN { recomputeAllRouteMetrics([solution EXCEPT ![r].stops = Swap(@, i + 1, j + 1)]) :
              <<r, i, j>> \in
                { x \in (DOMAIN solution) \X (1..NumCustomers) \X (1..NumCustomers) :
                    /\ Len(solution[x[1]].stops) >= 4
                    /\ x[2] <= Len(solution[x[1]].stops) - 3
                    /\ x[3] <= Len(solution[x[1]].stops) - 3
                    /\ x[2] # x[3] } }
     ELSE {})

(***************************************************************************)
(* geneticAlgorithmVRP                                                     *)
(***************************************************************************)
GAGenerations == 1      \* generations that are followed (the code runs 15 or more)

\* Line 1757 (and 1986-1989): the orders a shuffle can leave the locations in
Shuffles ==
    { p \in [1..NumCustomers -> 1..NumCustomers] :
        \A a, b \in 1..NumCustomers : a # b => p[a] # p[b] }

\* Line 1761: vehicles.map(v => ({...})), one slot for each vehicle type
typeSlots ==
    [t \in DOMAIN inst.vehicles |->
        [type |-> t, capacity |-> inst.vehicles[t].capacity, locations |-> <<>>,
         usedCapacity |-> 0]]

\* Line 1770: vehicleSlots.find(slot => slot.usedCapacity + demand <= slot.capacity)
FirstSlotWithRoom(sl, d) == FirstIndex(sl, LAMBDA x : x.usedCapacity + d <= x.capacity)

\* Lines 1768-1780
RECURSIVE GAPack(_, _, _)
GAPack(shuffled, k, sl) ==
    IF k > Len(shuffled) THEN sl
    ELSE LET d == inst.demand[shuffled[k]]
             a == FirstSlotWithRoom(sl, d)
         IN IF a = 0 THEN GAPack(shuffled, k + 1, sl)
            ELSE GAPack(shuffled, k + 1,
                        [sl EXCEPT ![a].locations = Append(@, shuffled[k]),
                                   ![a].usedCapacity = @ + d])

\* Lines 1783-1828 (and 2034-2079): the routes of the slots that got a location
RECURSIVE SlotRoutes(_, _)
SlotRoutes(sl, k) ==
    IF k > Len(sl) THEN <<>>
    ELSE (IF Len(sl[k].locations) > 0
          THEN LET locs == sl[k].locations
                   stops == <<Stop(Depot, 0)>>
                            \o [m \in DOMAIN locs |-> Stop(locs[m], m)]
                            \o <<Stop(Depot, Len(locs) + 1)>>
               IN << MakeRoute(sl[k].type, stops, sl[k].usedCapacity, FALSE) >>
          ELSE <<>>)
         \o SlotRoutes(sl, k + 1)

\* Lines 1751-1831 for one outcome of the shuffle
createRandomSolution(shuffled) == SlotRoutes(GAPack(shuffled, 1, typeSlots), 1)

\* Lines 1849-1871: the children crossover can return; pick[i] is the draw for route i
crossover(parent1, parent2) ==
    LET maxRoutes == Max2(Len(parent1), Len(parent2)) IN
    { recomputeAllRouteMetrics(
        [i \in 1..maxRoutes |->
            IF i <= Len(parent1) /\ i <= Len(parent2)
            THEN (IF pick[i] = 1 THEN parent1[i] ELSE parent2[i])
            ELSE IF i <= Len(parent1) THEN parent1[i] ELSE parent2[i]]) :
        pick \in [1..maxRoutes -> {1, 2}] }

\* Lines 1873-1892: what mutate can leave of a solution; routeIndex, stop1
\* and stop2 are the draws, stop1 and stop2 from 1 .. stops.length - 2
mutate(solution) ==
    {solution} \cup
    { [solution EXCEPT ![x[1]] = recomputeRouteMetrics(
                                    [@ EXCEPT !.stops = Renumber(Swap(@, x[2] + 1, x[3] + 1))])] :
        x \in { y \in (DOMAIN solution) \X (1..NumCustomers) \X (1..NumCustomers) :
                  /\ Len(solution[y[1]].stops) > 3
                  /\ y[2] <= Len(solution[y[1]].stops) - 2
                  /\ y[3] <= Len(solution[y[1]].stops) - 2
                  /\ y[2] # y[3] } }

\* Lines 1833-1847: tournamentSelection draws three members with repetition
\* and returns the cheapest, so it can return any member.
\* Lines 1716-1732: one offspring of the population
Offspring(population) ==
    UNION { UNION { mutate(o) : o \in crossover(parent1, parent2) \cup {parent1} } :
              <<parent1, parent2>> \in population \X population }

\* Lines 1697-1700: the populations followed are those of at most two
\* distinct individuals (the ten or more draws of the code can coincide)
RandomPopulations ==
    { {createRandomSolution(p), createRandomSolution(q)} : p, q \in Shuffles }

\* Lines 1702-1704 (and 1738-1740): reduce keeps the first of the cheapest
\* members; the population's order is random, so any cheapest member
Cheapest(population) ==
    { x \in population :
        \A y \in population : calculateTotalCost(x) <= calculateTotalCost(y) }

(***************************************************************************)
(* antColonyOptimizationVRP                                                *)
(***************************************************************************)
MaxAnts == 2            \* ant constructions that are followed (the code runs 50 or more)

\* Lines 2002-2030: the packing of the shuffled locations.
\* st = [slots, idx]; idx is currentVehicleIndex (0-based).
RECURSIVE AntPack(_, _, _)
AntPack(shuffled, k, st) ==
    IF k > Len(shuffled) THEN st.slots
    ELSE LET d == inst.demand[shuffled[k]]
             n == Min2(Len(st.slots), st.idx + 1)
             a == FirstSlotWithRoom(SubSeq(st.slots, 1, n), d)
             put(j) == [st EXCEPT !.slots[j].locations = Append(@, shuffled[k]),
                                  !.slots[j].usedCapacity = @ + d]
         IN IF a # 0 THEN AntPack(shuffled, k + 1, put(a))
            ELSE IF st.idx < Len(st.slots)
                    /\ st.slots[st.idx + 1].usedCapacity + d <= st.slots[st.idx + 1].capacity
                 THEN AntPack(shuffled, k + 1, [put(st.idx + 1) EXCEPT !.idx = @ + 1])
            ELSE AntPack(shuffled, k + 1, st)

\* Lines 1980-2082 for one outcome of the shuffle: <<the first route>>, or
\* <<>> for null.  The pheromones are handed over and never read.
constructAntSolution(shuffled) ==
    LET rs == SlotRoutes(AntPack(shuffled, 1, [slots |-> typeSlots, idx |-> 0]), 1) IN
    IF Len(rs) > 0 THEN <<rs[1]>> ELSE <<>>

(***************************************************************************)
(* orToolsAlgorithm                                                        *)
(***************************************************************************)
\* the instances on which the calls of the remote solver are followed
ORInstances == InstancesOf(<<1, -1>>)

\* The locations array handed to orToolsAlgorithm: the non-depot locations in
\* their order, the depot at (0-based) index depotAt.
LocationLists ==
    { [k \in 1..(NumCustomers + 1) |->
          IF k = depotAt + 1 THEN Depot
          ELSE IF k <= depotAt THEN k ELSE k - 1] : depotAt \in 0..NumCustomers }

\* loc.name === depot.name; twin is the non-depot location that bears the
\* depot's name, 0 when there is none
SameNameAsDepot(l, twin) == l = Depot \/ (twin # 0 /\ l = twin)

\* Line 2120: requestData.locations.findIndex(loc => loc.name === depot.name), 0-based
depotIndex(locations, twin) ==
    (CHOOSE k \in DOMAIN locations :
        /\ SameNameAsDepot(locations[k], twin)
        /\ \A h \in 1..(k - 1) : ~SameNameAsDepot(locations[h], twin)) - 1

\* Lines 2121-2126: splice(depotIndex, 1) and unshift, when depotIndex > 0
MoveToFront(q, idx) ==
    IF idx > 0 THEN <<q[idx + 1]>> \o RemoveAt(q, idx + 1) ELSE q

\* Lines 2093-2131: the locations and demands of the request as they are sent
requestData(locations, twin) ==
    LET idx     == depotIndex(locations, twin)
        demands == MoveToFront([k \in DOMAIN locations |-> inst.demand[locations[k]]], idx)
    IN  [locations |-> MoveToFront(locations, idx),
         demands   |-> [demands EXCEPT ![1] = 0]]

\* The 'Route Indices' the remote solver can answer with: a tour from index 0
\* over one or two indices, each of them in or out of the range of the list.
RouteIndices ==
    {<<0, i, 0>> : i \in -1..(NumCustomers + 1)}
        \cup {<<0, i, j, 0>> : i, j \in 1..NumCustomers}

\* What axios.post can come to: a rejection without a response, a rejection
\* with an error status, a response whose data has no result, or a result of
\* zero or one entries.
Responses ==
    {[kind |-> "network-error"], [kind |-> "error-status"], [kind |-> "no-result"]}
        \cup {[kind |-> "result", result |-> <<>>]}
        \cup {[kind |-> "result",
               result |-> <<[vehicleId |-> 1, indices |-> ix, distance |-> 4, load |-> 1]>>] :
                 ix \in RouteIndices}

\* Line 2146: locations[locationIndex] is an element of the array
Decodable(locations, entry) ==
    \A k \in DOMAIN entry.indices :
        entry.indices[k] >= 0 /\ entry.indices[k] < Len(locations)

\* Lines 2141-2165: the route made of one entry of the result; the location is
\* looked up in the locations array of the caller
DecodeEntry(locations, entry) ==
    [vehicle          |-> entry.vehicleId,
     stops            |-> [k \in DOMAIN entry.indices |->
                             Stop(locations[entry.indices[k] + 1], k - 1)],
     distance         |-> entry.distance,
     duration         |-> DurationOf(entry.distance),
     totalCapacity    |-> entry.load,
     capacityExceeded |-> FALSE]

\* Lines 2134-2179 with the catch block left out: a rejected post, and a
\* TypeError of the decoding, leave the function as a rejection
orToolsOutcomeNoCatch(locations, response) ==
    IF response.kind = "no-result"
    THEN [pc |-> "returned", routes |-> enhancedClarkeWrightAlgorithm]
    ELSE IF response.kind = "result"
            /\ \A e \in DOMAIN response.result : Decodable(locations, response.result[e])
    THEN [pc |-> "returned",
          routes |-> [e \in DOMAIN response.result |->
                        DecodeEntry(locations, response.result[e])]]
    ELSE [pc |-> "threw", routes |-> <<>>]

\* Lines 2134-2179: how the call ends on a response, and with which routes
orToolsOutcome(locations, response) ==
    IF response.kind \in {"network-error", "error-status"}
    THEN [pc |-> "returned", routes |-> enhancedClarkeWrightAlgorithm]
    ELSE IF response.kind = "no-result"
    THEN [pc |-> "returned", routes |-> enhancedClarkeWrightAlgorithm]
    ELSE IF \A e \in DOMAIN response.result : Decodable(locations, response.result[e])
    THEN [pc |-> "returned",
          routes |-> [e \in DOMAIN response.result |->
                        DecodeEntry(locations, response.result[e])]]
    ELSE [pc |-> "returned", routes |-> enhancedClarkeWrightAlgorithm]

(***************************************************************************)
(* The state machine of one run.                                           *)
(***************************************************************************)
DrvIdle ==
    /\ req = <<>> /\ dpc = "" /\ httpStatus = 0 /\ invoked = <<>> /\ threw = {}
    /\ algorithmResults = <<>> /\ selectedAlgorithm = "" /\ persisted = FALSE

Init ==
    /\ DrvIdle
    /\ inst \in Instances
    /\ alg = ""
    /\ pc = "call"
    /\ routes = <<>>
    /\ aux = <<>>

\* nearestNeighborAlgorithm(vehicles, locations, depot), lines 924-1066
RunNearestNeighbor ==
    /\ pc = "call"
    /\ alg' = "nearest-neighbor"
    /\ routes' = nearestNeighborAlgorithm
    /\ pc' = "returned"
    /\ UNCHANGED <<inst, aux>>
    /\ UNCHANGED drvVars

\* sweepAlgorithm(vehicles, locations, depot), lines 1306-1418
RunSweep ==
    /\ pc = "call"
    /\ alg' = "sweep"
    /\ routes' = sweepAlgorithm
    /\ pc' = "returned"
    /\ UNCHANGED <<inst, aux>>
    /\ UNCHANGED drvVars

\* clarkeWrightAlgorithm, lines 425-499: the initial routes and the sorted savings
CWStart ==
    /\ pc = "call"
    /\ alg' = "clarke-wright"
    /\ routes' = InitialRoutes
    /\ aux' = [savings |-> CWSavings]
    /\ pc' = "cw-savings"
    /\ UNCHANGED inst
    /\ UNCHANGED drvVars

\* Lines 531-587: one iteration of for (const s of savings)
CWMergeStep ==
    /\ pc = "cw-savings"
    /\ aux.savings # <<>>
    /\ routes' = MergeOnSaving(routes, Head(aux.savings))
    /\ aux' = [savings |-> Tail(aux.savings)]
    /\ UNCHANGED <<inst, alg, pc>>
    /\ UNCHANGED drvVars

\* Lines 589-654: slot pressure, the vehicle slots, routes and slots sorted.
\* aux.slot is the slot the last route of the first pass has taken.
CWSortForAssignment ==
    /\ pc = "cw-savings"
    /\ aux.savings = <<>>
    /\ \E st \in {CWSorted(CWAfterPressure(routes))} :
          /\ routes' = st.routes
          /\ aux' = [slots |-> st.slots, k |-> 1, slot |-> 0]
    /\ pc' = "cw-first-pass"
    /\ UNCHANGED <<inst, alg>>
    /\ UNCHANGED drvVars

\* Lines 657-669: the first pass on route aux.k
CWFirstPassStep ==
    /\ pc = "cw-first-pass"
    /\ aux.k <= Len(routes)
    /\ \E st \in {[routes |-> routes, slots |-> aux.slots]} :
       \E after \in {CWFirstPassOne(st, aux.k)} :
          /\ routes' = after.routes
          /\ aux' = [slots |-> after.slots, k |-> aux.k + 1, slot |-> CWFirstPassSlot(st, aux.k)]
    /\ UNCHANGED <<inst, alg, pc>>
    /\ UNCHANGED drvVars

\* Lines 672-814: second and third pass, local search, return
CWFinish ==
    /\ pc = "cw-first-pass"
    /\ aux.k > Len(routes)
    /\ routes' = CWRefine(CWLaterPasses([routes |-> routes, slots |-> aux.slots]))
    /\ pc' = "returned"
    /\ UNCHANGED <<inst, alg, aux>>
    /\ UNCHANGED drvVars

\* enhancedClarkeWrightAlgorithm, lines 1069-1185: the sorted savings and the initial routes
ECWStart ==
    /\ pc = "call"
    /\ alg' = "enhanced-clarke-wright"
    /\ routes' = InitialRoutes
    /\ aux' = [savings |-> ECWSavings]
    /\ pc' = "ecw-savings"
    /\ UNCHANGED inst
    /\ UNCHANGED drvVars

\* Lines 1217-1261: one iteration of for (const s of savings)
ECWMergeStep ==
    /\ pc = "ecw-savings"
    /\ aux.savings # <<>>
    /\ routes' = MergeOnSaving(routes, Head(aux.savings))
    /\ aux' = [savings |-> Tail(aux.savings)]
    /\ UNCHANGED <<inst, alg, pc>>
    /\ UNCHANGED drvVars

\* Lines 1263-1280: the vehicle slots, routes and slots sorted.
\* aux.slot is the slot the last route of the best-fit loop has taken.
ECWSortForAssignment ==
    /\ pc = "ecw-savings"
    /\ aux.savings = <<>>
    /\ \E st \in {BestFitSorted(routes)} :
          /\ routes' = st.routes
          /\ aux' = [slots |-> st.slots, k |-> 1, slot |-> 0]
    /\ pc' = "ecw-best-fit"
    /\ UNCHANGED <<inst, alg>>
    /\ UNCHANGED drvVars

\* Lines 1283-1295: the best-fit loop on route aux.k
ECWBestFitStep ==
    /\ pc = "ecw-best-fit"
    /\ aux.k <= Len(routes)
    /\ \E st \in {[routes |-> routes, slots |-> aux.slots]} :
       \E after \in {BestFitOne(st, aux.k)} :
          /\ routes' = after.routes
          /\ aux' = [slots |-> after.slots, k |-> aux.k + 1,
                     slot |-> BestSlot(st.slots, st.routes[aux.k].totalCapacity)]
    /\ UNCHANGED <<inst, alg, pc>>
    /\ UNCHANGED drvVars

\* Lines 1297-1302: local search, return
ECWFinish ==
    /\ pc = "ecw-best-fit"
    /\ aux.k > Len(routes)
    /\ routes' = ECWRefine(routes)
    /\ pc' = "returned"
    /\ UNCHANGED <<inst, alg, aux>>
    /\ UNCHANGED drvVars

\* tabuSearchVRP, lines 1494-1522.  routes is currentSolution.
TabuStart ==
    /\ pc = "call"
    /\ alg' = "tabu-search"
    /\ \E currentSolution \in {enhancedClarkeWrightAlgorithm} :
         /\ routes' = currentSolution
         /\ aux' = [bestSolution |-> currentSolution,
                    tabuList |-> {},
                    iteration |-> 0]
    /\ pc' = "tabu-loop"
    /\ UNCHANGED inst
    /\ UNCHANGED drvVars

\* Lines 1553-1588: one iteration that finds a neighbour.  tabuList holds
\* each key with twice its expiry.
TabuIterate ==
    /\ pc = "tabu-loop"
    /\ aux.iteration < tabuMaxIterations
    /\ \E neighbors \in {generateNeighbors(routes)} :
       \E b \in {BestNeighbor(neighbors, aux.tabuList, 1, 0)} :
          /\ b # 0
          /\ \E bestNeighbor \in {neighbors[b]} :
             \E solutionKey \in {generateSolutionKey(bestNeighbor)} :
                LET set == {e \in aux.tabuList : e.key # solutionKey}
                           \cup {[key |-> solutionKey,
                                   expiry2 |-> 2 * aux.iteration + tabuTenure2]}
                    kept == {e \in set : ~(e.expiry2 <= 2 * aux.iteration)}
                IN /\ routes' = bestNeighbor
                   /\ aux' = [bestSolution |->
                                 IF calculateTotalCost(bestNeighbor) < calculateTotalCost(aux.bestSolution)
                                 THEN bestNeighbor ELSE aux.bestSolution,
                              tabuList |-> kept,
                              iteration |-> aux.iteration + 1]
    /\ UNCHANGED <<inst, alg, pc>>
    /\ UNCHANGED drvVars

\* Lines 1553, 1569, 1590: the loop ends and the best solution gets its vehicles
TabuFinish ==
    /\ pc = "tabu-loop"
    /\ \/ aux.iteration >= tabuMaxIterations
       \/ BestNeighbor(generateNeighbors(routes), aux.tabuList, 1, 0) = 0
    /\ routes' = assignVehiclesToRoutes(aux.bestSolution)
    /\ pc' = "returned"
    /\ UNCHANGED <<inst, alg, aux>>
    /\ UNCHANGED drvVars

\* simulatedAnnealingVRP, lines 1594-1622.  routes is currentSolution.
SAStart ==
    /\ pc = "call"
    /\ alg' = "simulated-annealing"
    /\ \E currentSolution \in {enhancedClarkeWrightAlgorithm} :
         /\ routes' = currentSolution
         /\ aux' = [bestSolution |-> currentSolution]
    /\ pc' = "sa-loop"
    /\ UNCHANGED inst
    /\ UNCHANGED drvVars

\* the pass of lines 1647-1660 with the best solution set to every solution
\* that is taken, also when it is not cheaper than the best so far
SAStepBestFollowsCurrent ==
    /\ pc = "sa-loop"
    /\ \E neighbor \in SANeighbors(routes), accept \in BOOLEAN :
       \E neighborCost \in {calculateTotalCost(neighbor)} :
         LET costDifference == neighborCost - calculateTotalCost(routes) IN
         IF costDifference <= 0 \/ accept
         THEN /\ routes' = neighbor
              /\ aux' = [bestSolution |-> neighbor]
         ELSE UNCHANGED <<routes, aux>>
    /\ UNCHANGED <<inst, alg, pc>>
    /\ UNCHANGED drvVars

\* Lines 1647-1660: one pass of the inner loop.  A neighbour that costs no
\* more is always taken (Math.random() < 1); a dearer one is taken or not.
SAStep ==
    /\ pc = "sa-loop"
    /\ \E neighbor \in SANeighbors(routes), accept \in BOOLEAN :
       \E neighborCost \in {calculateTotalCost(neighbor)} :
         LET costDifference == neighborCost - calculateTotalCost(routes) IN
         IF costDifference <= 0 \/ accept
         THEN /\ routes' = neighbor
              /\ aux' = [bestSolution |->
                            IF neighborCost < calculateTotalCost(aux.bestSolution)
                            THEN neighbor ELSE aux.bestSolution]
         ELSE UNCHANGED <<routes, aux>>
    /\ UNCHANGED <<inst, alg, pc>>
    /\ UNCHANGED drvVars

\* Lines 1645, 1665: the temperature has fallen to 1; a pass can leave the
\* solution as it is, so the loop can end in any state it reaches
SAFinish ==
    /\ pc = "sa-loop"
    /\ routes' = assignVehiclesToRoutes(aux.bestSolution)
    /\ pc' = "returned"
    /\ UNCHANGED <<inst, alg, aux>>
    /\ UNCHANGED drvVars

\* geneticAlgorithmVRP, lines 1696-1704: the initial population and its best
GAStart ==
    /\ pc = "call"
    /\ alg' = "genetic"
    /\ inst \in GAInstances
    /\ \E population \in RandomPopulations :
         \E bestSolution \in Cheapest(population) :
              aux' = [population |-> population, bestSolution |-> bestSolution,
                      generation |-> 0]
    /\ routes' = <<>>
    /\ pc' = "ga-loop"
    /\ UNCHANGED inst
    /\ UNCHANGED drvVars

\* Lines 1707-1745: one generation; the new population followed is the
\* elite and one offspring (the other offspring can be copies of these)
GAGeneration ==
    /\ pc = "ga-loop"
    /\ aux.generation < GAGenerations
    /\ \E offspring \in Offspring(aux.population) :
       \E newPopulation \in {{aux.bestSolution, offspring}} :
         \E currentBest \in Cheapest(newPopulation) :
              aux' = [population |-> newPopulation,
                      bestSolution |->
                          IF calculateTotalCost(currentBest) < calculateTotalCost(aux.bestSolution)
                          THEN currentBest ELSE aux.bestSolution,
                      generation |-> aux.generation + 1]
    /\ UNCHANGED <<inst, alg, pc, routes>>
    /\ UNCHANGED drvVars

\* Line 1747
GAFinish ==
    /\ pc = "ga-loop"
    /\ aux.generation = GAGenerations
    /\ routes' = assignVehiclesToRoutes(aux.bestSolution)
    /\ pc' = "returned"
    /\ UNCHANGED <<inst, alg, aux>>
    /\ UNCHANGED drvVars

\* antColonyOptimizationVRP, lines 1911-1953.  routes is bestSolution, <<>> for null.
ACOStart ==
    /\ pc = "call"
    /\ alg' = "ant-colony"
    /\ routes' = <<>>
    /\ aux' = [ants |-> 0]
    /\ pc' = "aco-loop"
    /\ UNCHANGED inst
    /\ UNCHANGED drvVars

\* Lines 1960-1970: one ant
ACOAnt ==
    /\ pc = "aco-loop"
    /\ aux.ants < MaxAnts
    /\ \E solution \in {constructAntSolution(shuffled) : shuffled \in Shuffles} :
         routes' = IF solution # <<>>
                      /\ (routes = <<>> \/ calculateTotalCost(solution) < calculateTotalCost(routes))
                   THEN solution ELSE routes
    /\ aux' = [ants |-> aux.ants + 1]
    /\ UNCHANGED <<inst, alg, pc>>
    /\ UNCHANGED drvVars

\* Line 1976
ACOFinish ==
    /\ pc = "aco-loop"
    /\ aux.ants = MaxAnts
    /\ pc' = "returned"
    /\ UNCHANGED <<inst, alg, aux, routes>>
    /\ UNCHANGED drvVars

\* orToolsAlgorithm, lines 2087-2134: the request is built and posted
ORStart ==
    /\ pc = "call"
    /\ inst \in ORInstances
    /\ alg' = "or-tools"
    /\ \E locations \in LocationLists : \E twin \in {0} \cup Customers :
          aux' = [locations |-> locations,
                  twin      |-> twin,
                  request   |-> requestData(locations, twin),
                  response  |-> [kind |-> "pending"]]
    /\ pc' = "or-posted"
    /\ UNCHANGED <<inst, routes>>
    /\ UNCHANGED drvVars

\* Lines 2134 and 2171-2179: the post is rejected and the catch block answers
ORPostRejected ==
    /\ pc = "or-posted"
    /\ \E response \in {r \in Responses : r.kind \in {"network-error", "error-status"}} :
       \E outcome \in {orToolsOutcome(aux.locations, response)} :
          /\ aux' = [aux EXCEPT !.response = response]
          /\ routes' = outcome.routes
          /\ pc' = outcome.pc
    /\ UNCHANGED <<inst, alg>>
    /\ UNCHANGED drvVars

\* Lines 2137 and 2166-2170: the response carries no result
ORNoResult ==
    /\ pc = "or-posted"
    /\ \E response \in {r \in Responses : r.kind = "no-result"} :
       \E outcome \in {orToolsOutcome(aux.locations, response)} :
          /\ aux' = [aux EXCEPT !.response = response]
          /\ routes' = outcome.routes
          /\ pc' = outcome.pc
    /\ UNCHANGED <<inst, alg>>
    /\ UNCHANGED drvVars

\* Lines 2137-2165: the response carries a result, which is decoded
ORResult ==
    /\ pc = "or-posted"
    /\ \E response \in {r \in Responses : r.kind = "result"} :
       \E outcome \in {orToolsOutcome(aux.locations, response)} :
          /\ aux' = [aux EXCEPT !.response = response]
          /\ routes' = outcome.routes
          /\ pc' = outcome.pc
    /\ UNCHANGED <<inst, alg>>
    /\ UNCHANGED drvVars

Next ==
    \/ RunNearestNeighbor
    \/ RunSweep
    \/ CWStart
    \/ CWMergeStep
    \/ CWSortForAssignment
    \/ CWFirstPassStep
    \/ CWFinish
    \/ ECWStart
    \/ ECWMergeStep
    \/ ECWSortForAssignment
    \/ ECWBestFitStep
    \/ ECWFinish
    \/ TabuStart
    \/ TabuIterate
    \/ TabuFinish
    \/ SAStart
    \/ SAStep
    \/ SAFinish
    \/ GAStart
    \/ GAGeneration
    \/ GAFinish
    \/ ACOStart
    \/ ACOAnt
    \/ ACOFinish
    \/ ORStart
    \/ ORPostRejected
    \/ ORNoResult
    \/ ORResult

Spec == Init /\ [][Next]_vars

(***************************************************************************)
(* Properties of the routes                                                *)
(***************************************************************************)
Returned == pc = "returned"

\* the number of stops at location l over all routes of a solution
Occurrences(solution, l) ==
    SumSeq([r \in DOMAIN solution |->
              Cardinality({k \in DOMAIN solution[r].stops :
                             solution[r].stops[k].locationId = l})])

NoDuplicates(solution) == \A l \in Customers : Occurrences(solution, l) <= 1

DepotEnds(solution) ==
    \A r \in DOMAIN solution :
        /\ Len(solution[r].stops) >= 2
        /\ solution[r].stops[1].locationId = Depot
        /\ solution[r].stops[Len(solution[r].stops)].locationId = Depot

\* the sum of the demands of the stops of a route that are not the depot
DemandSum(route) ==
    SumSeq([k \in DOMAIN route.stops |->
              IF route.stops[k].locationId = Depot THEN 0 ELSE route.stops[k].demand])

\* C1: the route list returned by Clarke-Wright, Enhanced Clarke-Wright,
\* Nearest Neighbor, Tabu Search and Simulated Annealing holds every non-depot
\* location at most once over all its routes.
C1_NoLocationTwice ==
    (Returned /\ alg \in {"clarke-wright", "enhanced-clarke-wright", "nearest-neighbor",
                          "tabu-search", "simulated-annealing"})
    => NoDuplicates(routes)

\* Clarke-Wright has returned several routes, one of them left without a
\* vehicle, that together hold all four locations of the instance.
C1_Witness ==
    /\ Returned /\ alg = "clarke-wright"
    /\ NumCustomers = 4
    /\ Len(routes) >= 2
    /\ \E r \in DOMAIN routes : routes[r].vehicle = 0
    /\ \A l \in Customers : Occurrences(routes, l) = 1

\* C2: every individual of every generation of the Genetic Algorithm, and the
\* solution it returns, holds every non-depot location at most once.
C2_IndividualsNoLocationTwice ==
    alg = "genetic"
    => /\ \A individual \in aux.population : NoDuplicates(individual)
       /\ NoDuplicates(aux.bestSolution)
       /\ Returned => NoDuplicates(routes)

\* C3: in every solution an algorithm holds or returns (routes under
\* construction, current and best solutions, individuals), every route
\* starts and ends with the depot.
C3_DepotFirstAndLast ==
    /\ alg # "or-tools" => DepotEnds(routes)
    /\ alg \in {"tabu-search", "simulated-annealing", "genetic"} => DepotEnds(aux.bestSolution)
    /\ alg = "genetic" => \A individual \in aux.population : DepotEnds(individual)

\* Simulated Annealing has accepted an exchange of two stops: its current
\* solution is not the best one any more.
C3_Witness ==
    /\ alg = "simulated-annealing" /\ pc = "sa-loop"
    /\ routes # aux.bestSolution
    /\ DepotEnds(routes)

\* a route that has a vehicle is within its capacity or flagged
WithinCapacityOrFlagged(route) ==
    route.vehicle # 0
    => \/ route.totalCapacity <= inst.vehicles[route.vehicle].capacity
       \/ route.capacityExceeded

\* C4: in the raw routes an algorithm returns (compare mode) and in these
\* routes after assignVehiclesToRoutes (single mode), a route with a vehicle
\* has totalCapacity <= the capacity of the vehicle, or capacityExceeded.
C4_NoUnflaggedOverload ==
    Returned
    => /\ \A r \in DOMAIN routes : WithinCapacityOrFlagged(routes[r])
       /\ \A r \in DOMAIN routes : WithinCapacityOrFlagged(assignVehiclesToRoutes(routes)[r])

\* C5: the totalCapacity of every returned route is the sum of the demands
\* of its non-depot stops.
C5_TotalCapacityIsDemandSum ==
    Returned => \A r \in DOMAIN routes : routes[r].totalCapacity = DemandSum(routes[r])

(***************************************************************************)
(* Properties of the remote-solver adapter                                 *)
(***************************************************************************)
\* the response is one of the failures of the remote solver
RemoteFailure(locations, response) ==
    \/ response.kind \in {"network-error", "error-status", "no-result"}
    \/ /\ response.kind = "result"
       /\ \E e \in DOMAIN response.result : ~Decodable(locations, response.result[e])

\* C11: when the post fails (network error or error status), the response has
\* no result, or an entry of the result cannot be decoded, orToolsAlgorithm
\* does not throw and returns the routes of enhancedClarkeWrightAlgorithm for
\* the same vehicles, locations and depot.
C11_RemoteFailureFallsBack ==
    (alg = "or-tools" /\ pc # "or-posted" /\ RemoteFailure(aux.locations, aux.response))
    => (pc = "returned" /\ routes = enhancedClarkeWrightAlgorithm)

\* the solver answered with an index outside the list and the call returned
\* the routes of the fallback
C11_Witness ==
    /\ alg = "or-tools" /\ Returned
    /\ aux.response.kind = "result"
    /\ \E e \in DOMAIN aux.response.result :
          ~Decodable(aux.locations, aux.response.result[e])
    /\ routes = enhancedClarkeWrightAlgorithm /\ Len(routes) > 0

\* C12: when the remote solver succeeds, the stop decoded from an index is the
\* location the request sent at that index, so that index 0 decodes to the depot.
C12_IndexDecodesToRequestLocation ==
    (alg = "or-tools" /\ Returned /\ ~RemoteFailure(aux.locations, aux.response))
    => \A e \in DOMAIN routes : \A k \in DOMAIN routes[e].stops :
          routes[e].stops[k].locationId
              = aux.request.locations[aux.response.result[e].indices[k] + 1]

(***************************************************************************)
(* Metrics the driver computes from the routes of an algorithm             *)
(***************************************************************************)
\* Lines 143-149: totalDemandServed += route.totalCapacity || 0
totalDemandServed(rs) == SumSeq([r \in DOMAIN rs |-> rs[r].totalCapacity])

\* Line 165: the sum of (v.capacity || 0) * (v.count || 1) over the vehicles
totalVehicleCapacity ==
    SumSeq([t \in DOMAIN inst.vehicles |->
              inst.vehicles[t].capacity
                  * (IF inst.vehicles[t].count = 0 THEN 1 ELSE inst.vehicles[t].count)])

\* C13: on an instance whose fleet capacity is positive, vehicleUtilization =
\* totalDemandServed / totalVehicleCapacity * 100 of the returned routes lies
\* in [0, 100], that is, the demand served is at least 0 and at most the
\* capacity of the fleet.
C13_UtilizationWithinBounds ==
    (Returned /\ totalVehicleCapacity > 0)
    => (totalDemandServed(routes) >= 0 /\ totalDemandServed(routes) <= totalVehicleCapacity)

(***************************************************************************)
(* Properties of the stops and the cached metrics                          *)
(***************************************************************************)
NativeAlgorithms ==
    {"clarke-wright", "enhanced-clarke-wright", "nearest-neighbor", "sweep",
     "tabu-search", "simulated-annealing", "genetic", "ant-colony"}

\* each stop's order is its (0-based) index in the stops of its route
OrdersMatchPositions(solution) ==
    \A r \in DOMAIN solution : \A k \in DOMAIN solution[r].stops :
        solution[r].stops[k].order = k - 1

\* C14: in every route a native algorithm returns, and in every solution it
\* holds after an operation that permutes or concatenates stops (merge, split,
\* local search, Tabu swap, Simulated Annealing swap, GA mutation), the order
\* of each stop equals the index of the stop in the route's stops.
C14_OrderEqualsPosition ==
    alg \in NativeAlgorithms
    => /\ OrdersMatchPositions(routes)
       /\ alg \in {"tabu-search", "simulated-annealing", "genetic"}
            => OrdersMatchPositions(aux.bestSolution)
       /\ alg = "genetic" => \A individual \in aux.population : OrdersMatchPositions(individual)

\* the cached metrics of every route are those of its stops
MetricsFresh(solution) ==
    \A r \in DOMAIN solution :
        /\ solution[r].distance = StopsDistance(solution[r].stops)
        /\ solution[r].duration = DurationOf(solution[r].distance)

\* C15: in every route a native algorithm returns, and in every solution it
\* holds after a structural change (merge, split, swap, reversal, crossover),
\* distance is the sum of the distance-matrix entries over the consecutive
\* stops of the route and duration is round(distance / 40 * 60).
C15_MetricsMatchStops ==
    alg \in NativeAlgorithms
    => /\ MetricsFresh(routes)
       /\ alg \in {"tabu-search", "simulated-annealing", "genetic"} => MetricsFresh(aux.bestSolution)
       /\ alg = "genetic" => \A individual \in aux.population : MetricsFresh(individual)

\* Tabu Search holds a solution whose swap has changed the distance of a route
C15_Witness ==
    /\ alg = "tabu-search" /\ pc = "tabu-loop"
    /\ Len(routes) = Len(aux.bestSolution)
    /\ \E r \in DOMAIN routes :
          /\ routes[r].stops # aux.bestSolution[r].stops
          /\ routes[r].distance > aux.bestSolution[r].distance
          /\ routes[r].distance = StopsDistance(routes[r].stops)

(***************************************************************************)
(* Properties of the vehicle assignment                                    *)
(***************************************************************************)
\* slot p has the least capacity among the slots that were unused when p was
\* taken and have capacity >= required
SmallestFittingSlot(sl, p, required) ==
    \A m \in DOMAIN sl :
        ((~sl[m].used \/ m = p) /\ sl[m].capacity >= required)
        => sl[p].capacity <= sl[m].capacity

RoutesDescending(rs) ==
    \A a, b \in DOMAIN rs : a < b => rs[a].totalCapacity >= rs[b].totalCapacity

\* C16: in the strict-assignment step (Clarke-Wright's first pass, the
\* best-fit loop of Enhanced Clarke-Wright and of assignVehiclesToRoutes) the
\* routes are processed in descending demand, and a route that gets a slot
\* gets an unused slot whose capacity is the least among the unused slots of
\* capacity >= the route's demand.
C16_SmallestFittingSlot ==
    pc \in {"cw-first-pass", "ecw-best-fit"}
    => /\ RoutesDescending(routes)
       /\ aux.slot # 0
            => SmallestFittingSlot(aux.slots, aux.slot, routes[aux.k - 1].totalCapacity)

\* C17: every route Clarke-Wright or Enhanced Clarke-Wright returns without an
\* assigned vehicle carries capacityExceeded = true.
C17_UnassignedRoutesAreFlagged ==
    (Returned /\ alg \in {"clarke-wright", "enhanced-clarke-wright"})
    => \A r \in DOMAIN routes : routes[r].vehicle = 0 => routes[r].capacityExceeded

(***************************************************************************)
(*        THE LOCAL SEARCH: improveRouteWithLocalSearch on one route       *)
(*                                                                         *)
(* The route handed over holds the non-depot locations of a layout in any  *)
(* order between the two depot stops.  aux.seq is the local seq, aux.again *)
(* tells that threeOptOnce has returned true.                              *)
(***************************************************************************)
\* offsets (km north of the depot) of the locations of the routes searched
LSOffsets == {-1, 0, 1, 2}

LSLayouts ==
    {<<a, b, c>> : a, b, c \in LSOffsets} \cup {<<a, b, c, d>> : a, b, c, d \in LSOffsets}

LSInstances ==
    UNION {[ demand   : {[l \in 0..Len(layout) |-> 0]},
             pos      : {[l \in 0..Len(layout) |-> IF l = Depot THEN 0 ELSE layout[l]]},
             vehicles : {<<[capacity |-> 1, count |-> 1]>>} ] : layout \in LSLayouts}

\* no route has been handed over yet
InitLocalSearch ==
    /\ DrvIdle
    /\ inst = <<>>
    /\ alg = "local-search"
    /\ routes = <<>>
    /\ aux = <<>>
    /\ pc = "ls-call"

\* the route that holds the locations in the order shuffled
LSRoute(shuffled) ==
    MakeRoute(0, <<Stop(Depot, 0)>>
                   \o [k \in 1..NumCustomers |-> Stop(shuffled[k], k)]
                   \o <<Stop(Depot, NumCustomers + 1)>>, 0, FALSE)

\* Lines 817-840: the call, and seq = [first, ...middle, last]
LSCall ==
    /\ pc = "ls-call"
    /\ inst' \in LSInstances
    /\ routes' \in {<<LSRoute(shuffled)>> : shuffled \in Shuffles}'
    /\ aux' = [seq |-> routes'[1].stops, again |-> FALSE]
    /\ pc' = "ls-2opt"
    /\ UNCHANGED alg
    /\ UNCHANGED drvVars

\* Lines 841-852 (and 893-905): one pass of the while loop of 2-opt
LSTwoOptSweep ==
    /\ pc = "ls-2opt"
    /\ \E r \in {TwoOptSweep(aux.seq, 1, 2, FALSE)} :
          /\ aux' = [aux EXCEPT !.seq = r.seq]
          /\ pc' = IF r.improved THEN "ls-2opt"
                   ELSE IF aux.again THEN "ls-rebuild" ELSE "ls-3opt"
    /\ UNCHANGED <<inst, alg, routes>>
    /\ UNCHANGED drvVars

\* Lines 855-891: threeOptOnce()
LSThreeOptOnce ==
    /\ pc = "ls-3opt"
    /\ \E best \in {threeOptOnce(aux.seq)} :
          IF best # <<>>
          THEN aux' = [seq |-> best, again |-> TRUE] /\ pc' = "ls-2opt"
          ELSE aux' = aux /\ pc' = "ls-rebuild"
    /\ UNCHANGED <<inst, alg, routes>>
    /\ UNCHANGED drvVars

\* Lines 908-920: the route is rebuilt from seq
LSRebuild ==
    /\ pc = "ls-rebuild"
    /\ routes' = << [routes[1] EXCEPT !.stops = Renumber(aux.seq),
                                      !.distance = StopsDistance(aux.seq),
                                      !.duration = DurationOf(StopsDistance(aux.seq))] >>
    /\ pc' = "returned"
    /\ UNCHANGED <<inst, alg, aux>>
    /\ UNCHANGED drvVars

NextLocalSearch ==
    \/ LSCall
    \/ LSTwoOptSweep
    \/ LSThreeOptOnce
    \/ LSRebuild

SpecLocalSearch == InitLocalSearch /\ [][NextLocalSearch]_vars

\* the 2-opt phase has ended and aux.seq is what it ended on
TwoOptEnded == pc \in {"ls-3opt", "ls-rebuild"}

\* no reversal of an interior segment seq[i..k] is shorter than seq
NoImprovingReversal(seq) ==
    \A i \in 1..(Len(seq) - 2) : \A k \in (i + 1)..(Len(seq) - 2) :
        StopsDistance(TwoOptMove(seq, i, k)) >= StopsDistance(seq)

\* the 2-opt phase ends on a sequence no reversal improves, on which one more
\* pass changes nothing and reports no improvement
C18_FixedPoint ==
    TwoOptEnded
    => /\ NoImprovingReversal(aux.seq)
       /\ TwoOptSweep(aux.seq, 1, 2, FALSE) = [seq |-> aux.seq, improved |-> FALSE]

\* a pass of 2-opt that is followed by another has shortened the route
C18_SweepDecreases ==
    (pc = "ls-2opt" /\ pc' = "ls-2opt")
    => StopsDistance(aux'.seq) < StopsDistance(aux.seq)

\* C18: the 2-opt phase terminates on every route (each pass that is followed
\* by another strictly decreases the distance, a whole number that is never
\* negative), it ends on a stop sequence that no reversal of an interior
\* segment improves, and running it again on that sequence leaves the
\* sequence unchanged.
C18_TwoOptTerminatesAtFixedPoint ==
    /\ []C18_FixedPoint
    /\ [][C18_SweepDecreases]_vars

\* 2-opt has changed the sequence it was given, in two passes or more, and has ended
C18_Witness ==
    /\ alg = "local-search" /\ pc = "ls-3opt"
    /\ aux.seq # routes[1].stops
    /\ StopsDistance(aux.seq) < StopsDistance(routes[1].stops)

\* the savings phase of either Clarke-Wright variant
InSavingsPhase == pc \in {"cw-savings", "ecw-savings"}

\* the locations of a stop sequence, in order
LocationIdsOf(stops) == [k \in DOMAIN stops |-> stops[k].locationId]

\* after is before with two different routes, the first ending on customer x
\* and the second starting on customer y, replaced by the first followed by
\* the second, neither reversed, their demands added and within max capacity
JoinedEndToStart(before, after, x, y) ==
    \E a \in DOMAIN before : \E b \in DOMAIN before \ {a} :
        LET r1 == before[a]
            r2 == before[b]
        IN /\ r1.stops[Len(r1.stops) - 1].locationId = x
           /\ r2.stops[2].locationId = y
           /\ r1.totalCapacity + r2.totalCapacity <= maxCapacity
           /\ Len(after) = Len(before) - 1
           /\ \E m \in DOMAIN after :
                 /\ LocationIdsOf(after[m].stops)
                        = SubSeq(LocationIdsOf(r1.stops), 1, Len(r1.stops) - 1)
                          \o SubSeq(LocationIdsOf(r2.stops), 2, Len(r2.stops))
                 /\ after[m].totalCapacity = r1.totalCapacity + r2.totalCapacity
                 /\ {after[n] : n \in DOMAIN after \ {m}}
                        = {before[n] : n \in DOMAIN before \ {a, b}}

\* a step of the savings loop that changes the routes is an end-to-start join
\* on the saving it has taken, in one of the two orders
C19_MergeIsEndToStart ==
    (InSavingsPhase /\ pc' = pc /\ routes' # routes)
    => \/ JoinedEndToStart(routes, routes', Head(aux.savings).i, Head(aux.savings).j)
       \/ JoinedEndToStart(routes, routes', Head(aux.savings).j, Head(aux.savings).i)

\* in the savings phase no route with two or more customers is above max capacity
C19_MergedWithinCapacity ==
    InSavingsPhase
    => \A r \in DOMAIN routes :
          Len(routes[r].stops) >= 4 => routes[r].totalCapacity <= maxCapacity

\* C19: every merge of the savings phase of Clarke-Wright and Enhanced
\* Clarke-Wright joins two different routes end-to-start on its saving (i last
\* of its route and j first of the other, or j last and i first), concatenates
\* the two stop sequences without reversing either, and happens only if the
\* combined demand is at most the max vehicle capacity; so no route with two
\* or more customers is above the max vehicle capacity.
C19_SavingsMergesEndToStart ==
    /\ []C19_MergedWithinCapacity
    /\ [][C19_MergeIsEndToStart]_vars

\* the savings loop has ended having merged three customers into one route and
\* having left two routes apart whose combined demand is above max capacity
C19_Witness ==
    /\ InSavingsPhase /\ aux.savings = <<>>
    /\ \E r \in DOMAIN routes : Len(routes[r].stops) >= 5
    /\ \E a \in DOMAIN routes : \E b \in DOMAIN routes \ {a} :
          routes[a].totalCapacity + routes[b].totalCapacity > maxCapacity

\* the (i, j, k) of the three loops of threeOptOnce, 0-based as in the code
ThreeOptTriples(seq) ==
    {t \in (1..(Len(seq) - 4)) \X (2..(Len(seq) - 3)) \X (3..(Len(seq) - 2)) :
        t[1] < t[2] /\ t[2] < t[3]}

\* the six reconnections as the candidate list is written, B and C unmodified
WrittenReconnections(A, B, C, D) ==
    { A \o B \o C \o D,
      A \o Reverse(B) \o C \o D,
      A \o B \o Reverse(C) \o D,
      A \o C \o B \o D,
      A \o Reverse(C) \o B \o D,
      A \o Reverse(B) \o Reverse(C) \o D }

\* the best improving one of a set of candidates is taken: none is shorter
\* than the one taken, and nothing is taken only if none is shorter than seq
BestOfTaken(cands, seq, best) ==
    IF best = <<>>
    THEN \A c \in cands : StopsDistance(c) >= StopsDistance(seq)
    ELSE /\ best \in cands
         /\ StopsDistance(best) < StopsDistance(seq)
         /\ \A c \in cands : StopsDistance(c) >= StopsDistance(best)

\* C20: for each triple (i, j, k) the 3-opt pass compares exactly the six
\* reconnections of its candidate list as written, each built from the
\* unmodified B = seq[i..j) and C = seq[j..k), the pure swap A C B D among
\* them, and takes the best improving one of these six.
C20_SixWrittenReconnections ==
    pc = "ls-3opt"
    => \A t \in ThreeOptTriples(aux.seq) :
          LET A == Slice(aux.seq, 0, t[1])
              B == Slice(aux.seq, t[1], t[2])
              C == Slice(aux.seq, t[2], t[3])
              D == SliceFrom(aux.seq, t[3])
              compared == ThreeOptCandidates(A, B, C, D)
          IN /\ {compared[n] : n \in DOMAIN compared} = WrittenReconnections(A, B, C, D)
             /\ A \o C \o B \o D \in {compared[n] : n \in DOMAIN compared}
             /\ BestOfTaken(WrittenReconnections(A, B, C, D), aux.seq,
                            BestCandidate(compared, <<>>, StopsDistance(aux.seq)))

(***************************************************************************)
(*      THE LOCAL-SEARCH KERNELS: 2-opt, the 3-opt pass and Or-opt         *)
(*                                                                         *)
(* Each kernel is applied to a stop sequence: the route handed over, in    *)
(* any order of its interior, or what a kernel before it has left, as the  *)
(* two local searches chain them (2-opt, 3-opt pass, 2-opt in              *)
(* improveRouteWithLocalSearch; 2-opt, Or-opt in enhancedLocalSearch).     *)
(* aux.given is the sequence the kernel is given, aux.seq the one it       *)
(* leaves, aux.kernel the kernel that has run.                             *)
(***************************************************************************)
InitKernels ==
    /\ DrvIdle
    /\ inst = <<>>
    /\ alg = "kernels"
    /\ routes = <<>>
    /\ aux = <<>>
    /\ pc = "kernel-call"

\* Lines 833-840 (and 1438-1443): seq = [first, ...middle, last]
KernelCall ==
    /\ pc = "kernel-call"
    /\ inst' \in LSInstances
    /\ routes' \in {<<LSRoute(shuffled)>> : shuffled \in Shuffles}'
    /\ aux' = [given |-> routes'[1].stops, seq |-> routes'[1].stops, kernel |-> ""]
    /\ pc' = "kernel-given"
    /\ UNCHANGED alg
    /\ UNCHANGED drvVars

\* Lines 839-852 (and 893-905, 1441-1455): the while loop of 2-opt
KernelTwoOpt ==
    /\ pc = "kernel-given"
    /\ aux' = [aux EXCEPT !.seq = TwoOpt(aux.given), !.kernel = "2-opt"]
    /\ pc' = "kernel-done"
    /\ UNCHANGED <<inst, alg, routes>>
    /\ UNCHANGED drvVars

\* Lines 855-889: threeOptOnce(); seq stays as it is when it returns false
KernelThreeOptOnce ==
    /\ pc = "kernel-given"
    /\ \E best \in {threeOptOnce(aux.given)} :
          aux' = [aux EXCEPT !.seq = IF best # <<>> THEN best ELSE aux.given,
                             !.kernel = "3-opt"]
    /\ pc' = "kernel-done"
    /\ UNCHANGED <<inst, alg, routes>>
    /\ UNCHANGED drvVars

\* Lines 1457-1475: Or-opt
KernelOrOpt ==
    /\ pc = "kernel-given"
    /\ aux' = [aux EXCEPT !.seq = OrOpt(aux.given), !.kernel = "or-opt"]
    /\ pc' = "kernel-done"
    /\ UNCHANGED <<inst, alg, routes>>
    /\ UNCHANGED drvVars

\* the next kernel is given what the last one has left
KernelChain ==
    /\ pc = "kernel-done"
    /\ aux.seq # aux.given
    /\ aux' = [aux EXCEPT !.given = aux.seq]
    /\ pc' = "kernel-given"
    /\ UNCHANGED <<inst, alg, routes>>
    /\ UNCHANGED drvVars

NextKernels ==
    \/ KernelCall
    \/ KernelTwoOpt
    \/ KernelThreeOptOnce
    \/ KernelOrOpt
    \/ KernelChain

SpecKernels == InitKernels /\ [][NextKernels]_vars

\* how often stop st occurs in the stop sequence
StopCount(stops, st) == Cardinality({k \in DOMAIN stops : stops[k] = st})

\* C21: every local-search kernel (2-opt, the 3-opt pass, Or-opt) keeps the
\* first and the last stop of the sequence in place, leaves the interior a
\* permutation of the interior it was given (no stop lost or duplicated, also
\* when Or-opt accepts several moves in one scan), and never leaves a
\* sequence of larger distance than the one it was given.
C21_KernelsPermuteInteriorAndNeverWorsen ==
    pc = "kernel-done"
    => /\ Len(aux.seq) = Len(aux.given)
       /\ aux.seq[1] = aux.given[1]
       /\ aux.seq[Len(aux.seq)] = aux.given[Len(aux.given)]
       /\ \A k \in DOMAIN aux.given :
             StopCount(Interior(aux.seq), aux.given[k])
                 = StopCount(Interior(aux.given), aux.given[k])
       /\ StopsDistance(aux.seq) <= StopsDistance(aux.given)

\* Or-opt has shortened a sequence and has moved more than one segment: no
\* single segment taken out of the given sequence and put back gives its result
C21_Witness ==
    /\ pc = "kernel-done" /\ aux.kernel = "or-opt"
    /\ StopsDistance(aux.seq) < StopsDistance(aux.given)
    /\ \A length \in 1..3 : \A i \in 1..(Len(aux.given) - length - 2) :
          LET remaining == Slice(aux.given, 0, i) \o SliceFrom(aux.given, i + length) IN
          \A j \in 1..(Len(remaining) - 1) :
              aux.seq # Slice(remaining, 0, j) \o Slice(aux.given, i, i + length)
                          \o SliceFrom(remaining, j)

(***************************************************************************)
(*     TABU SEARCH WITH A TENURE THAT IS NOT WHOLE: eleven customers       *)
(*                                                                         *)
(* tabuTenure = min(15, max(5, nonDepot.length / 2)) is 5 up to ten        *)
(* customers and 5.5 with eleven.  The instances have four customers of    *)
(* demand 1 north of the depot, which the savings merge into one route,    *)
(* and seven of demand 4, each a route of its own, for a vehicle of        *)
(* capacity 4.                                                             *)
(***************************************************************************)
TenureInstances ==
    {[ demand   |-> [l \in 0..11 |-> IF l = Depot THEN 0 ELSE IF l <= 4 THEN 1 ELSE 4],
       pos      |-> [l \in 0..11 |-> IF l = Depot THEN 0 ELSE IF l <= 4 THEN north[l] ELSE -1],
       vehicles |-> <<[capacity |-> 4, count |-> 1]>> ] : north \in [1..4 -> {1, 2}]}

InitTenure ==
    /\ DrvIdle
    /\ inst \in TenureInstances
    /\ alg = ""
    /\ pc = "call"
    /\ routes = <<>>
    /\ aux = <<>>

NextTenure ==
    \/ TabuStart
    \/ TabuIterate
    \/ TabuFinish

SpecTenure == InitTenure /\ [][NextTenure]_vars

\* the keys that are in the tabu map
TabuKeys(tabuList) == {e.key : e \in tabuList}

\* a step of the main loop of Tabu Search that has chosen a neighbour
TabuChosen == alg = "tabu-search" /\ pc = "tabu-loop" /\ aux'.iteration = aux.iteration + 1

\* the neighbour chosen at iteration t is not tabu at that moment, its key is
\* inserted with expiry t + tenure, and of the entries before only those
\* with expiry <= t are pruned
C22_ChosenIsNotTabu ==
    TabuChosen
    => /\ generateSolutionKey(routes') \notin TabuKeys(aux.tabuList)
       /\ [key |-> generateSolutionKey(routes'),
           expiry2 |-> 2 * aux.iteration + tabuTenure2] \in aux'.tabuList
       /\ \A e \in aux.tabuList : e.expiry2 > 2 * aux.iteration => e \in aux'.tabuList

\* at the start of iteration n the map holds the keys chosen at the iterations
\* t with t + 1 <= n <= t + tenure and no other: a key of expiry t + tenure
\* is in the map at the iterations t + 1 .. t + tenure and is gone afterwards
\* (expiries are held doubled)
C22_TabuForTenure ==
    (alg = "tabu-search" /\ pc = "tabu-loop")
    => \A e \in aux.tabuList :
          /\ e.expiry2 >= 2 * aux.iteration
          /\ e.expiry2 <= 2 * (aux.iteration - 1) + tabuTenure2

\* C22: in Tabu Search the neighbour chosen as the new current solution has a
\* key that is not in the tabu map at that moment; chosen at iteration t, its
\* key is inserted with expiry t + tenure, so it cannot be chosen again at the
\* iterations t + 1 .. t + tenure, and it is selectable again afterwards
\* (entries with expiry <= the iteration are pruned at its end).
C22_TabuKeysBlockForTenure ==
    /\ []C22_TabuForTenure
    /\ [][C22_ChosenIsNotTabu]_vars

\* Tabu Search or Simulated Annealing is in its loop
InSearchLoop ==
    \/ alg = "tabu-search" /\ pc = "tabu-loop"
    \/ alg = "simulated-annealing" /\ pc = "sa-loop"

\* the sum of the distances of the routes
TotalDistance(solution) == SumSeq([r \in DOMAIN solution |-> solution[r].distance])

\* from one iteration to the next the cost of the best solution does not grow,
\* and the best solution is replaced only by the solution just taken and only
\* if that one is strictly cheaper
C23_BestReplacedOnStrictImprovement ==
    (InSearchLoop /\ pc' = pc)
    => /\ calculateTotalCost(aux'.bestSolution) <= calculateTotalCost(aux.bestSolution)
       /\ aux'.bestSolution # aux.bestSolution
             => /\ aux'.bestSolution = routes'
                /\ calculateTotalCost(aux'.bestSolution) < calculateTotalCost(aux.bestSolution)

\* the best solution of the loop and the solution returned are no longer than
\* the seed that Enhanced Clarke-Wright has given
C23_NoLongerThanSeed ==
    /\ InSearchLoop
          => calculateTotalCost(aux.bestSolution) <= calculateTotalCost(enhancedClarkeWrightAlgorithm)
    /\ (Returned /\ alg \in {"tabu-search", "simulated-annealing"})
          => /\ TotalDistance(routes) <= TotalDistance(enhancedClarkeWrightAlgorithm)
             /\ calculateTotalCost(routes) <= calculateTotalCost(enhancedClarkeWrightAlgorithm)

\* C23: in Tabu Search and Simulated Annealing the cost of the best solution
\* so far never increases from one iteration to the next and the best
\* solution is replaced only on strict improvement, so the total distance of
\* the solution returned is at most that of the Enhanced Clarke-Wright seed,
\* also when the current solution moves to worse neighbours.
C23_BestSoFarNeverWorsens ==
    /\ []C23_NoLongerThanSeed
    /\ [][C23_BestReplacedOnStrictImprovement]_vars

\* the current solution of Simulated Annealing has moved to a dearer
\* neighbour and the best solution has stayed the seed
C23_Witness ==
    /\ alg = "simulated-annealing" /\ pc = "sa-loop"
    /\ calculateTotalCost(routes) > calculateTotalCost(aux.bestSolution)
    /\ aux.bestSolution = enhancedClarkeWrightAlgorithm

\* C24: one move of Simulated Annealing picks a route of the current solution
\* and two interior positions, each among all the interior positions
\* 1 .. len - 2 of that route, and swaps them if distinct: for every solution
\* (of one route or several) and every route of two customers or more, the
\* swap of every pair of distinct interior positions is a possible outcome
\* of a single move.
C24_EveryInteriorPairPossible ==
    (alg = "simulated-annealing" /\ pc = "sa-loop")
    => \A r \in DOMAIN routes :
          Len(routes[r].stops) >= 4
          => \A i, j \in 1..(Len(routes[r].stops) - 2) :
                i # j
                => recomputeAllRouteMetrics([routes EXCEPT ![r].stops = Swap(@, i + 1, j + 1)])
                       \in SANeighbors(routes)

\* the slots of the count-expanded fleet, in order: a vehicle type of count k
\* gives k slots
CountExpandedSlots ==
    [k \in DOMAIN vehicleSlots |->
        [type |-> vehicleSlots[k].type, capacity |-> vehicleSlots[k].capacity,
         locations |-> <<>>, usedCapacity |-> 0]]

\* first fit of the shuffled locations over the count-expanded fleet, one
\* route for each slot that is not empty
CountExpandedFirstFit(shuffled) == SlotRoutes(GAPack(shuffled, 1, CountExpandedSlots), 1)

\* C25: the random-solution constructor of the Genetic Algorithm places each
\* shuffled location into the first slot, in order, of the count-expanded
\* fleet whose remaining capacity admits it, drops a location only when no
\* such slot admits it, and emits one route for each slot that is not empty.
C25_FirstFitOverCountExpandedFleet ==
    (alg = "genetic" /\ pc = "ga-loop" /\ aux.generation = 0)
    => \A individual \in aux.population :
          \E shuffled \in Shuffles :
              /\ individual = createRandomSolution(shuffled)
              /\ individual = CountExpandedFirstFit(shuffled)

\* the first route the first-fit constructor of the Genetic Algorithm emits
\* for the shuffled order, as <<route>>, or <<>> when it emits none
FirstRouteOfFirstFit(shuffled) ==
    LET rs == createRandomSolution(shuffled) IN
    IF Len(rs) > 0 THEN <<rs[1]>> ELSE <<>>

\* C26: for every shuffled order of the locations, the route an ant returns
\* is the first route the first-fit constructor of the Genetic Algorithm
\* emits for the same order (first fit over all the vehicle slots, the route
\* of the first slot that is not empty), so an ant returns a route whenever
\* one location or more fits some vehicle.
C26_AntRouteIsFirstRouteOfFirstFit ==
    (alg = "ant-colony" /\ pc = "aco-loop" /\ aux.ants > 0)
    => \A shuffled \in Shuffles :
          /\ constructAntSolution(shuffled) = FirstRouteOfFirstFit(shuffled)
          /\ (\E l \in Customers : \E t \in DOMAIN inst.vehicles :
                  inst.demand[l] <= inst.vehicles[t].capacity)
                => constructAntSolution(shuffled) # <<>>

\* the slots of vehicle type t that no returned route has taken
SlotsLeftOfType(solution, t) ==
    inst.vehicles[t].count - Cardinality({r \in DOMAIN solution : solution[r].vehicle = t})

\* C27: the Sweep constructor takes the locations in ascending angle and
\* packs them into the current slot; when a location does not fit the
\* current slot, it advances to the next slot and places that location
\* there if it fits, so a location is left unserved only if no remaining
\* slot can carry it: no slot that has stayed empty has the capacity for a
\* location that is in no route.
C27_UnservedOnlyIfNoSlotCarries ==
    (Returned /\ alg = "sweep")
    => \A l \in Customers :
          Occurrences(routes, l) = 0
          => \A t \in DOMAIN inst.vehicles :
                SlotsLeftOfType(routes, t) > 0 => inst.vehicles[t].capacity < inst.demand[l]

\* the savings loop of either Clarke-Wright variant has processed its whole list
SavingsDone == InSavingsPhase /\ aux.savings = <<>>

\* no two distinct routes have a combined demand within the max vehicle capacity
NoPairWithinCapacity(rs) ==
    \A a \in DOMAIN rs : \A b \in DOMAIN rs \ {a} :
        rs[a].totalCapacity + rs[b].totalCapacity > maxCapacity

\* C28: when the savings phase of Clarke-Wright (basic or enhanced) has
\* processed the whole savings list, no two distinct routes have a combined
\* demand <= the max vehicle capacity (every pair that could be merged within
\* capacity has been merged, whatever the sign or the order of the savings);
\* so the slot-pressure loop that follows, and the pass that packs a route
\* left without a vehicle into a slot that is in use, merge nothing.
C28_NoMergeablePairIsLeft ==
    /\ SavingsDone => NoPairWithinCapacity(routes)
    /\ (SavingsDone /\ alg = "clarke-wright")
          => /\ Len(CWAfterPressure(routes)) = Len(routes)
             /\ Range(CWAfterPressure(routes)) = Range(routes)
    /\ (alg = "clarke-wright" /\ pc = "cw-first-pass" /\ aux.k > Len(routes))
          => CWSecondPass([routes |-> routes, slots |-> aux.slots], Unassigned(routes))
                 = [routes |-> routes, slots |-> aux.slots]

\* the savings loop of Clarke-Wright has left more routes than the fleet has
\* slots, after a merge, and the first pass has left a route without a
\* vehicle while a slot is in use
C28_Witness ==
    /\ alg = "clarke-wright" /\ pc = "cw-first-pass" /\ aux.k > Len(routes)
    /\ Len(routes) > totalVehicleSlots
    /\ \E r \in DOMAIN routes : Len(routes[r].stops) >= 4
    /\ Unassigned(routes) # <<>>
    /\ \E p \in DOMAIN aux.slots : aux.slots[p].used

\* the customers of a route
CustomersOf(rt) == {rt.stops[k].locationId : k \in DOMAIN rt.stops} \ {Depot}

\* solution has the routes of seed, one for one: the same customers and the
\* same totalCapacity, in whatever order inside the route
SameRoutesInPlace(solution, seed) ==
    /\ Len(solution) = Len(seed)
    /\ \A r \in DOMAIN solution :
          /\ CustomersOf(solution[r]) = CustomersOf(seed[r])
          /\ solution[r].totalCapacity = seed[r].totalCapacity
          /\ Len(solution[r].stops) = Len(seed[r].stops)

\* the same, the routes taken in any order (assignVehiclesToRoutes sorts them)
SameRoutesInAnyOrder(solution, seed) ==
    /\ Len(solution) = Len(seed)
    /\ \A r \in DOMAIN seed :
          Cardinality({k \in DOMAIN solution :
                          /\ CustomersOf(solution[k]) = CustomersOf(seed[r])
                          /\ solution[k].totalCapacity = seed[r].totalCapacity
                          /\ Len(solution[k].stops) = Len(seed[r].stops)})
          = Cardinality({k \in DOMAIN seed :
                          /\ CustomersOf(seed[k]) = CustomersOf(seed[r])
                          /\ seed[k].totalCapacity = seed[r].totalCapacity
                          /\ Len(seed[k].stops) = Len(seed[r].stops)})

\* C29: Tabu Search and Simulated Annealing only reorder customers inside a
\* route: the current solution and the best solution of every iteration, and
\* the solution returned, have as many routes as the Enhanced Clarke-Wright
\* seed, each with the customers and the totalCapacity of the seed's route.
C29_OnlyReorderInsideRoutes ==
    /\ InSearchLoop
          => \A seed \in {enhancedClarkeWrightAlgorithm} :
                /\ SameRoutesInPlace(routes, seed)
                /\ SameRoutesInPlace(aux.bestSolution, seed)
    /\ (Returned /\ alg \in {"tabu-search", "simulated-annealing"})
          => \A seed \in {enhancedClarkeWrightAlgorithm} :
                SameRoutesInAnyOrder(routes, seed)

\* Tabu Search has moved to a solution of two routes or more in which a
\* route has its customers in another order than in the seed
C29_Witness ==
    /\ alg = "tabu-search" /\ pc = "tabu-loop"
    /\ Len(routes) >= 2
    /\ \E r \in DOMAIN routes :
          LocationIdsOf(routes[r].stops) # LocationIdsOf(enhancedClarkeWrightAlgorithm[r].stops)

(***************************************************************************)
(* Nearest Neighbor on locations with demands up to 3, above the capacity  *)
(* of the smaller fleets.                                                  *)
(***************************************************************************)
NNInstances ==
    UNION { [ demand   : {[l \in 0..Len(layout) |-> IF l = Depot THEN d0 ELSE d[l]] :
                            d0 \in DepotDemands, d \in [1..Len(layout) -> 0..3]},
              pos      : {[l \in 0..Len(layout) |-> IF l = Depot THEN 0 ELSE layout[l]]},
              vehicles : Fleets ] : layout \in {<<1, -1>>, <<2, 1, -1>>, <<1, 0, 2>>} }

InitNearestNeighbor ==
    /\ DrvIdle
    /\ inst \in NNInstances
    /\ alg = ""
    /\ pc = "call"
    /\ routes = <<>>
    /\ aux = <<>>

SpecNearestNeighbor == InitNearestNeighbor /\ [][RunNearestNeighbor]_vars

\* the routes that the pass over the vehicle slots has made
SlotPassRoutes == NNSlotPass(1, {}, <<>>).routes

\* C30: Nearest Neighbor serves exactly the servable locations: in the routes
\* returned after the slot pass and the left-over pass, every non-depot
\* location whose demand is <= the largest vehicle capacity is in exactly one
\* route and every location whose demand exceeds every vehicle capacity is in
\* none; the demand carried by a route of the slot pass does not exceed the
\* capacity of its slot.
C30_ServesExactlyTheServable ==
    (Returned /\ alg = "nearest-neighbor")
    => /\ \A l \in Customers :
             Occurrences(routes, l) = IF inst.demand[l] <= maxCapacity THEN 1 ELSE 0
       /\ \A r \in DOMAIN SlotPassRoutes :
             /\ routes[r] = SlotPassRoutes[r]
             /\ DemandSum(routes[r]) <= inst.vehicles[routes[r].vehicle].capacity

\* Nearest Neighbor has returned routes that leave out a location too heavy
\* for every vehicle and hold a location that the slot pass could not take,
\* on a route of its own
C30_Witness ==
    /\ Returned /\ alg = "nearest-neighbor"
    /\ \E l \in Customers : inst.demand[l] > maxCapacity /\ Occurrences(routes, l) = 0
    /\ Len(routes) > Len(SlotPassRoutes)
    /\ SlotPassRoutes # <<>>
====
